---- MODULE Spec2Model ----
(***************************************************************************)
(* Model of the hospital shift scheduler (src/scheduler_logic.py):         *)
(* Person, Scheduler.generate_schedule (attempt loop, phased search,       *)
(* validation, optimization swaps, fairness score, best snapshot) and      *)
(* Scheduler.reschedule_for_leave with its four replacement tiers.         *)
(*                                                                         *)
(* Dates are day numbers 1..numDays of the scheduled month; the weekday of *)
(* a date follows Python's date.weekday() (Mon = 0 .. Sun = 6) from the    *)
(* weekday of day 1.  Staff are named by their position in the roster,     *)
(* which is the iteration order of the dict self.staff.  The schedule is   *)
(* the dict self.schedule kept as the sequence of its items in insertion   *)
(* order (the order Python iterates it in).  Every item carries a history  *)
(* field "via" naming the path that created it; no code reads it.          *)
(***************************************************************************)
EXTENDS Integers, Sequences, FiniteSets, TLC

\* ---------------------------------------------------------------- bounds
MaxDays == 8
MaxAttempts == 2
MaxLeaveCalls == 2

\* ------------------------------------------------------ program constants
HALF_MONTH_THRESHOLD == 14
MIN_NIGHT_TO_NIGHT_GAP == 5
EMERGENCY_NIGHT_TO_NIGHT_GAP == 3
MIN_DAY_TO_DAY_GAP == 3
MIN_NIGHT_TO_DAY_GAP == 3
max_iterations == 50
AVG_SURPLUS_LIMIT == 4

DAY == "Day"
NIGHT == "Night"
FULL_24H == "24h"
ShiftType == {DAY, NIGHT, FULL_24H}
NONE == "none"

SHIFT_WEIGHTS(k) == IF k = FULL_24H THEN 2 ELSE 1

NightKinds == {NIGHT, FULL_24H}
DayKinds == {DAY, FULL_24H}

\* ------------------------------------------------------------- utilities
Abs(x) == IF x < 0 THEN -x ELSE x
Max2(a, b) == IF a >= b THEN a ELSE b
SetMin(S) == CHOOSE x \in S : \A y \in S : x <= y
SetMax(S) == CHOOSE x \in S : \A y \in S : x >= y
Range(s) == {s[i] : i \in DOMAIN s}

RECURSIVE SumOver(_, _)
SumOver(f, S) ==
    IF S = {} THEN 0
    ELSE LET x == CHOOSE y \in S : TRUE IN f[x] + SumOver(f, S \ {x})

VARIABLES
    cfg,        \* the Scheduler's constructor inputs and derived constants
    schedule,   \* self.schedule, items in insertion order
    stats,      \* the mutable counters of every Person
    pc,         \* position in generate_schedule / the caller
    attempt,    \* loop variable of generate_schedule
    pos,        \* locals of _generate_single_schedule and _optimize_schedule
    best,       \* best_schedule, best_stats, best_fairness_score of the last
                \* generate_schedule call, until the next call of the API
    result,     \* return value of generate_schedule
    leaveCalls, \* number of reschedule_for_leave calls made
    changes,    \* return value of the last reschedule_for_leave
    last,       \* history: the last operation performed
    log         \* history: the outcome of every attempt of that call

vars == <<cfg, schedule, stats, pc, attempt, pos, best, result, leaveCalls, changes, last,
          log>>

\* --------------------------------------------------------------- calendar
Dates == 1 .. cfg.numDays
Staff == 1 .. Len(cfg.staff)
Person(p) == cfg.staff[p]

Weekday(d) == (cfg.firstWeekday + d - 1) % 7
is_holiday(d) == d \in cfg.holidays
is_weekend(d) == d \in Dates /\ Weekday(d) \in {5, 6}
is_thursday(d) == Weekday(d) = 3

\* 0 stands for None
_get_weekend_pair(d) ==
    IF Weekday(d) = 5 THEN d + 1
    ELSE IF Weekday(d) = 6 THEN d - 1
    ELSE 0

HasWeekendPair(d) == Weekday(d) \in {5, 6}

_get_thursday_for_weekend(d) ==
    IF Weekday(d) = 5 THEN d - 2
    ELSE IF Weekday(d) = 6 THEN d - 3
    ELSE 0

\* ----------------------------------------------------------------- Person
is_available_on(p, d) == d \notin Person(p).fixed_off_dates

\* twice the target ratio: 1 for 0.5, 2 for 1.0
get_target_ratio2(person) ==
    IF Cardinality(person.fixed_off_dates) >= HALF_MONTH_THRESHOLD THEN 1 ELSE 2

IsHalf(p) == get_target_ratio2(Person(p)) = 1
Norm(p, v) == IF IsHalf(p) THEN v * 2 ELSE v

ZeroStats ==
    [total_shifts |-> 0, day_shifts |-> 0, night_shifts |-> 0, shifts_24h |-> 0,
     weekend_shifts |-> 0, holiday_shifts |-> 0, weighted_total |-> 0,
     last_day_shift |-> 0, last_night_shift |-> 0, assigned_dates |-> {}]

reset_monthly_stats(n) == [p \in 1 .. n |-> ZeroStats]

\* ------------------------------------------------------- schedule lookups
Entry(p, d, k, v) == [name |-> p, date |-> d, shift |-> k, via |-> v]

HasEntry(S, p, d) == \E i \in DOMAIN S : S[i].name = p /\ S[i].date = d

ShiftOf(S, p, d) ==
    IF HasEntry(S, p, d)
    THEN S[CHOOSE i \in DOMAIN S : S[i].name = p /\ S[i].date = d].shift
    ELSE NONE

ViaOf(S, p, d) ==
    IF HasEntry(S, p, d)
    THEN S[CHOOSE i \in DOMAIN S : S[i].name = p /\ S[i].date = d].via
    ELSE NONE

\* a removal that drops every item of the date (sensitivity variant)
RemoveAllOnDate(S, p, d) == SelectSeq(S, LAMBDA e : e.date # d)

RemoveEntry(S, p, d) ==
    SelectSeq(S, LAMBDA e : ~(e.name = p /\ e.date = d))

\* self.schedule[(name, d)] = shift_type: an existing key keeps its place
PutEntry(S, e) ==
    IF HasEntry(S, e.name, e.date)
    THEN [i \in DOMAIN S |->
            IF S[i].name = e.name /\ S[i].date = e.date THEN e ELSE S[i]]
    ELSE Append(S, e)

NightDatesOf(S, p) == {S[i].date : i \in {j \in DOMAIN S : S[j].name = p /\ S[j].shift \in NightKinds}}
DayDatesOf(S, p) == {S[i].date : i \in {j \in DOMAIN S : S[j].name = p /\ S[j].shift \in DayKinds}}

DayCount(S, d) == Cardinality({i \in DOMAIN S : S[i].date = d /\ S[i].shift \in DayKinds})
NightCount(S, d) == Cardinality({i \in DOMAIN S : S[i].date = d /\ S[i].shift \in NightKinds})

\* ------------------------------------------------------------ gap checks
_has_thursday_night_this_week(S, st, p, weekend_date) ==
    LET thursday == _get_thursday_for_weekend(weekend_date)
    IN  /\ HasWeekendPair(weekend_date)
        /\ thursday \in st[p].assigned_dates
        /\ ShiftOf(S, p, thursday) \in NightKinds

\* the four gap loops shared by _basic_can_assign, _can_assign_shift and
\* _emergency_can_assign; TRUE when some loop returns False
NightGapViolated(S, p, d, min_gap) ==
    \E i \in DOMAIN S :
        /\ S[i].name = p /\ S[i].shift \in NightKinds
        /\ Abs(d - S[i].date) > 0 /\ Abs(d - S[i].date) < min_gap

\* a checker without a Night-to-Day loop (sensitivity variant)
NightToDayUnchecked(S, p, d) == FALSE

ReverseNightToDayViolated(S, p, d) ==
    \E i \in DOMAIN S :
        /\ S[i].name = p /\ S[i].shift \in DayKinds
        /\ S[i].date - d > 0 /\ S[i].date - d < MIN_NIGHT_TO_DAY_GAP

NightToDayViolated(S, p, d) ==
    \E i \in DOMAIN S :
        /\ S[i].name = p /\ S[i].shift \in NightKinds
        /\ d - S[i].date > 0 /\ d - S[i].date < MIN_NIGHT_TO_DAY_GAP

\* a checker without the Day-to-Day loop (sensitivity variant)
DayGapUnchecked(S, p, d) == FALSE

DayGapViolated(S, p, d) ==
    \E i \in DOMAIN S :
        /\ S[i].name = p /\ S[i].shift \in DayKinds
        /\ Abs(d - S[i].date) > 0 /\ Abs(d - S[i].date) < MIN_DAY_TO_DAY_GAP

CapabilityOk(p, k) ==
    /\ ~(k = NIGHT /\ ~Person(p).can_do_night)
    /\ ~(k = FULL_24H /\ ~Person(p).can_do_24h)

WeekendRulesOk(S, st, p, d) ==
    is_weekend(d) =>
        /\ ~(_get_weekend_pair(d) \in st[p].assigned_dates)
        /\ ~_has_thursday_night_this_week(S, st, p, d)

\* the checks common to the three predicates, with the night gap in force
HardChecks(S, st, p, d, k, night_gap) ==
    /\ is_available_on(p, d)
    /\ d \notin Person(p).fixed_off_dates
    /\ d \notin st[p].assigned_dates
    /\ CapabilityOk(p, k)
    /\ (k \in NightKinds =>
            /\ ~NightGapViolated(S, p, d, night_gap)
            /\ ~ReverseNightToDayViolated(S, p, d))
    /\ (k \in DayKinds =>
            /\ ~NightToDayViolated(S, p, d)
            /\ ~DayGapViolated(S, p, d))
    /\ WeekendRulesOk(S, st, p, d)

_basic_can_assign(S, st, p, d, k) ==
    HardChecks(S, st, p, d, k, MIN_NIGHT_TO_NIGHT_GAP)

\* the emergency check with no night gap left (sensitivity variant)
EmergencyWithoutNightGap(S, st, p, d, k) ==
    HardChecks(S, st, p, d, k, 0)

_emergency_can_assign(S, st, p, d, k) ==
    HardChecks(S, st, p, d, k, EMERGENCY_NIGHT_TO_NIGHT_GAP)

\* ----------------------------------------------- fairness blocks (normal)
NightCapable == {p \in Staff : Person(p).can_do_night}
NormNight(st, p) == Norm(p, st[p].night_shifts)
NormDay(st, p) == Norm(p, st[p].day_shifts)
NormTotal(st, p) == Norm(p, st[p].total_shifts)

\* the night fairness block without the look at who else is available
\* (sensitivity variant)
NightFairnessWhoeverIsFree(S, st, p, d, k) ==
    /\ k \in NightKinds
    /\ NightCapable # {}
    /\ NormNight(st, p) > SetMin({NormNight(st, q) : q \in NightCapable})

NightFairnessBlocks(S, st, p, d, k) ==
    /\ k \in NightKinds
    /\ NightCapable # {}
    /\ LET min_norm == SetMin({NormNight(st, q) : q \in NightCapable})
       IN  /\ NormNight(st, p) > min_norm
           /\ \E q \in NightCapable :
                /\ q # p
                /\ NormNight(st, q) <= min_norm
                /\ _basic_can_assign(S, st, q, d, k)

HolidayWorkerBlocks(S, st, p, d, k) ==
    /\ is_weekend(d)
    /\ st[p].holiday_shifts > 0
    /\ \E q \in Staff :
        /\ q # p
        /\ st[q].holiday_shifts = 0
        /\ _basic_can_assign(S, st, q, d, k)

ComparableStaff(st) == {q \in Staff : st[q].holiday_shifts = 0}

WeekendFairnessBlocks(S, st, p, d, k) ==
    /\ is_weekend(d)
    /\ ComparableStaff(st) # {}
    /\ st[p].holiday_shifts = 0
    /\ LET min_weekend == SetMin({st[q].weekend_shifts : q \in ComparableStaff(st)})
       IN  \/ /\ st[p].weekend_shifts > min_weekend
              /\ \E q \in ComparableStaff(st) :
                    /\ q # p
                    /\ st[q].weekend_shifts <= min_weekend
                    /\ _basic_can_assign(S, st, q, d, k)
           \/ /\ st[p].weekend_shifts >= min_weekend + 1
              /\ \E q \in ComparableStaff(st) :
                    /\ q # p
                    /\ st[q].weekend_shifts < st[p].weekend_shifts
                    /\ _basic_can_assign(S, st, q, d, k)

\* avg_shifts_per_person is the fraction cfg.avgNum / cfg.avgDen and a
\* person's target is avg * ratio, so with r2 = 2 * ratio:
\*   total >= target + 1   <=>   total * 2 * avgDen >= avgNum * r2 + 2 * avgDen
\*   total <  target       <=>   total * 2 * avgDen <  avgNum * r2
TargetBlocks(S, st, p, d, k) ==
    /\ st[p].total_shifts * 2 * cfg.avgDen
          >= cfg.avgNum * get_target_ratio2(Person(p)) + 2 * cfg.avgDen
    /\ \E q \in Staff :
        /\ st[q].total_shifts * 2 * cfg.avgDen < cfg.avgNum * get_target_ratio2(Person(q))
        /\ q # p
        /\ _basic_can_assign(S, st, q, d, k)

\* the normal check applying the emergency night gap (sensitivity variant)
NormalWithEmergencyGap(S, st, p, d, k) ==
    /\ HardChecks(S, st, p, d, k, EMERGENCY_NIGHT_TO_NIGHT_GAP)
    /\ ~NightFairnessBlocks(S, st, p, d, k)
    /\ ~HolidayWorkerBlocks(S, st, p, d, k)
    /\ ~WeekendFairnessBlocks(S, st, p, d, k)
    /\ ~TargetBlocks(S, st, p, d, k)

_can_assign_shift(S, st, p, d, k) ==
    /\ HardChecks(S, st, p, d, k, MIN_NIGHT_TO_NIGHT_GAP)
    /\ ~NightFairnessBlocks(S, st, p, d, k)
    /\ ~HolidayWorkerBlocks(S, st, p, d, k)
    /\ ~WeekendFairnessBlocks(S, st, p, d, k)
    /\ ~TargetBlocks(S, st, p, d, k)

\* --------------------------------------------------------- _assign_shift
AssignStats(s, d, k) ==
    [s EXCEPT
        !.assigned_dates = @ \cup {d},
        !.weighted_total = @ + SHIFT_WEIGHTS(k),
        !.total_shifts = @ + 1,
        !.day_shifts = IF k \in DayKinds THEN @ + 1 ELSE @,
        !.night_shifts = IF k \in NightKinds THEN @ + 1 ELSE @,
        !.shifts_24h = IF k = FULL_24H THEN @ + 1 ELSE @,
        !.last_day_shift = IF k \in DayKinds THEN d ELSE @,
        !.last_night_shift = IF k \in NightKinds THEN d ELSE @,
        !.weekend_shifts = IF is_weekend(d) THEN @ + 1 ELSE @,
        !.holiday_shifts = IF is_holiday(d) THEN @ + 1 ELSE @]

\* the counters taken back, weekend_shifts left as it is (sensitivity
\* variant)
UnassignKeepingWeekend(s, d, k) ==
    [s EXCEPT
        !.assigned_dates = @ \ {d},
        !.weighted_total = @ - SHIFT_WEIGHTS(k),
        !.total_shifts = @ - 1,
        !.day_shifts = IF k \in DayKinds THEN @ - 1 ELSE @,
        !.night_shifts = IF k \in NightKinds THEN @ - 1 ELSE @,
        !.shifts_24h = IF k = FULL_24H THEN @ - 1 ELSE @,
        !.holiday_shifts = IF is_holiday(d) THEN @ - 1 ELSE @]

\* the counters taken back in _perform_swap and reschedule_for_leave
\* (last_day_shift and last_night_shift are left as they are)
UnassignStats(s, d, k) ==
    [s EXCEPT
        !.assigned_dates = @ \ {d},
        !.weighted_total = @ - SHIFT_WEIGHTS(k),
        !.total_shifts = @ - 1,
        !.day_shifts = IF k \in DayKinds THEN @ - 1 ELSE @,
        !.night_shifts = IF k \in NightKinds THEN @ - 1 ELSE @,
        !.shifts_24h = IF k = FULL_24H THEN @ - 1 ELSE @,
        !.weekend_shifts = IF is_weekend(d) THEN @ - 1 ELSE @,
        !.holiday_shifts = IF is_holiday(d) THEN @ - 1 ELSE @]

\* the pair <<schedule, stats>> after _assign_shift(person, d, shift_type)
_assign_shift(S, st, p, d, k, v) ==
    <<PutEntry(S, Entry(p, d, k, v)), [st EXCEPT ![p] = AssignStats(@, d, k)]>>

\* ------------------------------------------- _calculate_assignment_score
\* The integer part of the score.  The code adds random.uniform(0, 0.5):
\* every other component is an integer, so the jitter only orders the
\* candidates whose integer scores are equal.
ScoreTotal(st, p) ==
    LET totals == {NormTotal(st, q) : q \in Staff}
        mn == SetMin(totals)
        mx == SetMax(totals)
    IN  IF NormTotal(st, p) <= mn THEN 50
        ELSE IF NormTotal(st, p) >= mx /\ mx - mn >= 1 THEN -50
        ELSE 0

ScoreDay(st, p, k) ==
    IF k \notin DayKinds THEN 0
    ELSE IF ~Person(p).can_do_night THEN 80
    ELSE IF NightCapable = {} THEN 0
    ELSE LET days == {NormDay(st, q) : q \in NightCapable}
             mn == SetMin(days)
             mx == SetMax(days)
         IN  IF NormDay(st, p) <= mn THEN 30
             ELSE IF NormDay(st, p) >= mx /\ mx - mn >= 1 THEN -30
             ELSE 0

ScoreNight(st, p, d, k) ==
    IF k \notin NightKinds THEN 0
    ELSE LET nights == {NormNight(st, q) : q \in Staff}
             mn == SetMin(nights)
             mx == SetMax(nights)
             fair == IF NormNight(st, p) <= mn THEN 30
                     ELSE IF NormNight(st, p) >= mx /\ mx - mn >= 1 THEN -30
                     ELSE 0
             gap == d - st[p].last_night_shift
             bonus == IF st[p].last_night_shift = 0 THEN 0
                      ELSE IF gap >= MIN_NIGHT_TO_NIGHT_GAP THEN 5
                      ELSE IF gap >= EMERGENCY_NIGHT_TO_NIGHT_GAP THEN 2
                      ELSE 0
         IN  fair + bonus

ScoreWeekend(S, st, p, d, k) ==
    IF ~is_weekend(d) THEN 0
    ELSE LET holidayPenalty ==
                IF /\ st[p].holiday_shifts > 0
                   /\ \E q \in Staff : /\ st[q].holiday_shifts = 0
                                       /\ q # p
                                       /\ _basic_can_assign(S, st, q, d, k)
                THEN -1000 ELSE 0
             comparable == ComparableStaff(st)
             fairness ==
                IF comparable # {} /\ st[p].holiday_shifts = 0
                THEN LET mn == SetMin({st[q].weekend_shifts : q \in comparable})
                     IN  (IF st[p].weekend_shifts <= mn THEN 100 ELSE -100)
                         + (IF st[p].weekend_shifts >= mn + 1 THEN -200 ELSE 0)
                ELSE 0
         IN  holidayPenalty + fairness

Score24h(st, p, k) ==
    IF k # FULL_24H THEN 0
    ELSE LET min_24h == SetMin({st[q].shifts_24h : q \in {r \in Staff : Person(r).can_do_24h}})
         IN  (IF st[p].shifts_24h > min_24h THEN -300 ELSE 0)
             + (IF st[p].shifts_24h >= 1 THEN -200 ELSE 0)

ScoreThursday(S, st, p, d, k) ==
    LET mx == SetMax({NormNight(st, q) : q \in Staff})
        thursdayNight ==
            IF k = NIGHT /\ is_thursday(d)
            THEN (IF NormNight(st, p) >= mx - 1 THEN 50 ELSE 0)
                 + (IF st[p].weekend_shifts > 0 THEN 30 ELSE 0)
            ELSE 0
        thursday_of_this_week == _get_thursday_for_weekend(d)
        weekendAfter ==
            IF /\ is_weekend(d)
               /\ thursday_of_this_week \in st[p].assigned_dates
               /\ ShiftOf(S, p, thursday_of_this_week) \in NightKinds
            THEN -500 ELSE 0
    IN  thursdayNight + weekendAfter

_calculate_assignment_score(S, st, p, d, k) ==
    ScoreTotal(st, p) + ScoreDay(st, p, k) + ScoreNight(st, p, d, k)
    + ScoreWeekend(S, st, p, d, k) + Score24h(st, p, k) + ScoreThursday(S, st, p, d, k)

\* ------------------------------------------------ _select_best_candidate
NormalCandidates(S, st, d, k, exclude) ==
    {p \in Staff \ exclude : _can_assign_shift(S, st, p, d, k)}

EmergencyCandidates(S, st, d, k, exclude) ==
    {p \in Staff \ exclude : _emergency_can_assign(S, st, p, d, k)}

\* the members of cands whose integer score is the highest: the persons
\* candidates[0][0] can be after the descending sort (the jitter decides
\* among them; the emergency penalty of 500 is the same for all)
TopScored(S, st, d, k, cands) ==
    {p \in cands :
        \A q \in cands : _calculate_assignment_score(S, st, q, d, k)
                            <= _calculate_assignment_score(S, st, p, d, k)}

\* the emergency candidates preferred to the normal ones (sensitivity
\* variant)
EmergencyBeforeNormal(S, st, d, k, normal, emergency) ==
    IF emergency # {}
    THEN [tier |-> "emergency", cands |-> TopScored(S, st, d, k, emergency)]
    ELSE IF normal # {}
    THEN [tier |-> "normal", cands |-> TopScored(S, st, d, k, normal)]
    ELSE [tier |-> "none", cands |-> {}]

\* the first non-empty candidate list: normal constraints, then emergency
SelectFrom(S, st, d, k, normal, emergency) ==
    IF normal # {}
    THEN [tier |-> "normal", cands |-> TopScored(S, st, d, k, normal)]
    ELSE IF emergency # {}
    THEN [tier |-> "emergency", cands |-> TopScored(S, st, d, k, emergency)]
    ELSE [tier |-> "none", cands |-> {}]

\* .cands: the persons the method can return (empty: it returns None);
\* .tier: the constraints they passed
_select_best_candidate(S, st, d, k, exclude) ==
    SelectFrom(S, st, d, k, NormalCandidates(S, st, d, k, exclude),
               EmergencyCandidates(S, st, d, k, exclude))

\* ------------------------------------------------- optimization: swaps
_get_all_night_shifts(S, p) == NightDatesOf(S, p)
_get_all_day_shifts(S, p) == DayDatesOf(S, p)

\* each returns TRUE for "no violation"
_check_night_gap_with_all_shifts(S, p, d, min_gap) ==
    \A e \in _get_all_night_shifts(S, p) : ~(Abs(d - e) > 0 /\ Abs(d - e) < min_gap)

_check_day_gap_with_all_shifts(S, p, d, min_gap) ==
    \A e \in _get_all_day_shifts(S, p) : ~(Abs(d - e) > 0 /\ Abs(d - e) < min_gap)

_check_night_to_day_gap(S, p, d, min_gap) ==
    \A n \in _get_all_night_shifts(S, p) : ~(d - n > 0 /\ d - n < min_gap)

_check_reverse_night_to_day_gap(S, p, night_date, min_gap) ==
    \A dd \in _get_all_day_shifts(S, p) : ~(dd - night_date > 0 /\ dd - night_date < min_gap)

_can_swap_shift(S, st, to, d, k) ==
    /\ CapabilityOk(to, k)
    /\ is_available_on(to, d)
    /\ d \notin Person(to).fixed_off_dates
    /\ d \notin st[to].assigned_dates
    /\ (k \in NightKinds =>
            /\ _check_night_gap_with_all_shifts(S, to, d, MIN_NIGHT_TO_NIGHT_GAP)
            /\ _check_reverse_night_to_day_gap(S, to, d, MIN_NIGHT_TO_DAY_GAP))
    /\ (k \in DayKinds =>
            /\ _check_night_to_day_gap(S, to, d, MIN_NIGHT_TO_DAY_GAP)
            /\ _check_day_gap_with_all_shifts(S, to, d, MIN_DAY_TO_DAY_GAP))
    /\ ~(is_weekend(d) /\ st[to].holiday_shifts > 0)
    /\ (is_weekend(d) =>
            /\ ~(_get_weekend_pair(d) \in st[to].assigned_dates)
            /\ ~_has_thursday_night_this_week(S, st, to, d))
    /\ (is_thursday(d) /\ k \in NightKinds =>
            ~(d + 2 \in st[to].assigned_dates \/ d + 3 \in st[to].assigned_dates))

\* a swap that leaves the counters of from_person as they were (sensitivity
\* variant)
SwapKeepingGiverCounters(S, st, from, to, d, k) ==
    _assign_shift(RemoveEntry(S, from, d), st, to, d, k, "swap")

\* a swap that takes the shift from from_person and gives it to nobody
\* (sensitivity variant)
SwapLosingShift(S, st, from, to, d, k) ==
    <<RemoveEntry(S, from, d), [st EXCEPT ![from] = UnassignStats(@, d, k)]>>

\* <<schedule, stats>> after _perform_swap(from_person, to_person, d, shift_type)
_perform_swap(S, st, from, to, d, k) ==
    _assign_shift(RemoveEntry(S, from, d),
                  [st EXCEPT ![from] = UnassignStats(@, d, k)],
                  to, d, k, "swap")

\* order of the nested for loops: the first tuple in lexicographic order
LexLess(a, b) ==
    \E i \in 1 .. Len(a) :
        /\ a[i] < b[i]
        /\ \A j \in 1 .. (i - 1) : a[j] = b[j]

LexMin(T) == CHOOSE t \in T : \A u \in T : u = t \/ LexLess(t, u)

NoSwap(S, st) == [S |-> S, st |-> st, swapped |-> FALSE]
Swapped(r) == [S |-> r[1], st |-> r[2], swapped |-> TRUE]

\* _perform_swap for the tuple t = <<from, date, to>>, then "return True"
SwapOf(S, st, t) ==
    Swapped(_perform_swap(S, st, t[1], t[3], t[2], ShiftOf(S, t[1], t[2])))

\* the swap of the first tuple found; "return False" when there is none
FirstSwap(S, st, found) ==
    IF found = {} THEN NoSwap(S, st) ELSE SwapOf(S, st, LexMin(found))

\* tuples <<high, item, low>> in loop order, item the index in self.schedule
WeekendSwaps(S, st, max_weekend, min_weekend) ==
    {<<h, i, l>> \in {p \in Staff : st[p].weekend_shifts = max_weekend}
                     \X (DOMAIN S)
                     \X {p \in Staff : st[p].weekend_shifts = min_weekend} :
        /\ S[i].name = h
        /\ is_weekend(S[i].date)
        /\ _can_swap_shift(S, st, l, S[i].date, S[i].shift)}

\* the first tuple in loop order, as <<from, date, to>>
ItemToDate(S, t) == <<t[1], S[t[2]].date, t[3]>>
FirstAtDate(S, found) ==
    IF found = {} THEN {} ELSE {ItemToDate(S, LexMin(found))}

_try_balance_weekend_shifts(S, st) ==
    IF Staff = {} THEN NoSwap(S, st)
    ELSE IF SetMax({st[p].weekend_shifts : p \in Staff})
            - SetMin({st[p].weekend_shifts : p \in Staff}) <= 1
    THEN NoSwap(S, st)
    ELSE FirstSwap(S, st, FirstAtDate(S,
            WeekendSwaps(S, st, SetMax({st[p].weekend_shifts : p \in Staff}),
                         SetMin({st[p].weekend_shifts : p \in Staff}))))

NightSwaps(S, st, max_night, min_night) ==
    {<<h, i, l>> \in {p \in NightCapable : NormNight(st, p) = max_night}
                     \X (DOMAIN S)
                     \X {p \in NightCapable : NormNight(st, p) = min_night} :
        /\ S[i].name = h
        /\ S[i].shift = NIGHT
        /\ _can_swap_shift(S, st, l, S[i].date, S[i].shift)}

_try_balance_night_shifts(S, st) ==
    IF NightCapable = {} THEN NoSwap(S, st)
    ELSE IF SetMax({NormNight(st, p) : p \in NightCapable})
            - SetMin({NormNight(st, p) : p \in NightCapable}) <= 1
    THEN NoSwap(S, st)
    ELSE FirstSwap(S, st, FirstAtDate(S,
            NightSwaps(S, st, SetMax({NormNight(st, p) : p \in NightCapable}),
                       SetMin({NormNight(st, p) : p \in NightCapable}))))

\* tuples <<high, part, item, other>> in loop order: part 1 is the weekend
\* burden block, part 2 the night burden block of the same high-total person
BurdenSwaps(S, st, max_total, non_holiday) ==
    {<<h, pt, i, o>> \in {p \in Staff : NormTotal(st, p) = max_total}
                         \X {1, 2} \X (DOMAIN S) \X Staff :
        /\ S[i].name = h
        /\ o # h
        /\ ~(NormTotal(st, o) >= max_total)
        /\ \/ /\ pt = 1
              /\ non_holiday # {}
              /\ st[h].holiday_shifts = 0
              /\ st[h].weekend_shifts = SetMax({st[q].weekend_shifts : q \in non_holiday})
              /\ st[h].weekend_shifts > 0
              /\ is_weekend(S[i].date)
              /\ ~(st[o].holiday_shifts > 0)
              /\ ~(st[o].weekend_shifts >= st[h].weekend_shifts)
           \/ /\ pt = 2
              /\ Person(h).can_do_night
              /\ NormNight(st, h) = SetMax({NormNight(st, q) : q \in NightCapable})
              /\ st[h].night_shifts > 0
              /\ S[i].shift = NIGHT
              /\ ~is_weekend(S[i].date)
              /\ Person(o).can_do_night
              /\ ~(NormNight(st, o) >= NormNight(st, h))
        /\ _can_swap_shift(S, st, o, S[i].date, S[i].shift)}

\* the first tuple in loop order, as <<from, date, to>>
BurdenToDate(S, t) == <<t[1], S[t[3]].date, t[4]>>
FirstBurdenAtDate(S, found) ==
    IF found = {} THEN {} ELSE {BurdenToDate(S, LexMin(found))}

_try_balance_high_total_burden(S, st) ==
    FirstSwap(S, st, FirstBurdenAtDate(S,
        BurdenSwaps(S, st, SetMax({NormTotal(st, p) : p \in Staff}), ComparableStaff(st))))

\* all_shifts is sorted by date: tuples <<high, date, low>>
TotalSwaps(S, st, max_total, min_total) ==
    {<<h, d, l>> \in {p \in Staff : NormTotal(st, p) = max_total}
                     \X Dates
                     \X {p \in Staff : NormTotal(st, p) = min_total} :
        /\ HasEntry(S, h, d)
        /\ _can_swap_shift(S, st, l, d, ShiftOf(S, h, d))
        /\ NormTotal(st, h) - (IF IsHalf(h) THEN 2 ELSE 1)
             >= NormTotal(st, l) + (IF IsHalf(l) THEN 2 ELSE 1) - 1}

_try_balance_total_shifts(S, st) ==
    IF Staff = {} THEN NoSwap(S, st)
    ELSE IF SetMax({NormTotal(st, p) : p \in Staff})
            - SetMin({NormTotal(st, p) : p \in Staff}) <= 1
    THEN NoSwap(S, st)
    ELSE FirstSwap(S, st,
            TotalSwaps(S, st, SetMax({NormTotal(st, p) : p \in Staff}),
                       SetMin({NormTotal(st, p) : p \in Staff})))

\* "if self._try_balance_...(): improved = True" after an earlier pass
ThenNight(a) ==
    [_try_balance_night_shifts(a.S, a.st) EXCEPT !.swapped = @ \/ a.swapped]
ThenBurden(b) ==
    [_try_balance_high_total_burden(b.S, b.st) EXCEPT !.swapped = @ \/ b.swapped]
ThenTotal(c) ==
    [_try_balance_total_shifts(c.S, c.st) EXCEPT !.swapped = @ \/ c.swapped]

\* a round after which improved is left True whatever happened (sensitivity
\* variant)
RoundAlwaysImproved(S, st) ==
    [ThenTotal(ThenBurden(ThenNight(_try_balance_weekend_shifts(S, st))))
        EXCEPT !.swapped = TRUE]

\* one iteration of the while loop of _optimize_schedule; .swapped is
\* the value of improved at its end
OptimizeRoundResult(S, st) ==
    ThenTotal(ThenBurden(ThenNight(_try_balance_weekend_shifts(S, st))))

\* --------------------------------------------- _calculate_fairness_score
\* statistics.variance of n > 1 values is (n*Sum(x^2) - Sum(x)^2) / (n*(n-1)).
\* The score is kept as an integer: the code's value times VarScale, a
\* common multiple of every denominator n*(n-1) that can occur.
RECURSIVE VarScaleUpTo(_)
VarScaleUpTo(n) == IF n < 2 THEN 1 ELSE n * (n - 1) * VarScaleUpTo(n - 1)

VarScale == VarScaleUpTo(Len(cfg.staff))

calc_range(f, P) ==
    IF P = {} THEN 0 ELSE SetMax({f[p] : p \in P}) - SetMin({f[p] : p \in P})

\* calc_variance(lst) * VarScale
calc_variance_scaled(f, P) ==
    LET n == Cardinality(P)
        sq == [p \in P |-> f[p] * f[p]]
    IN  IF n > 1
        THEN (n * SumOver(sq, P) - SumOver(f, P) * SumOver(f, P)) * (VarScale \div (n * (n - 1)))
        ELSE 0

\* the score of the counters st when the weekend counts compared are
\* weekend_of[p]
fairness_score(st, weekend_of) ==
    LET night_capable == NightCapable
        non_holiday_workers == ComparableStaff(st)
        weekend_shifts == [p \in non_holiday_workers |-> weekend_of[p]]
        night_shifts == [p \in night_capable |-> NormNight(st, p)]
        day_shifts == [p \in night_capable |-> NormDay(st, p)]
        total_shifts == [p \in Staff |-> NormTotal(st, p)]
        weekend_range == calc_range(weekend_shifts, non_holiday_workers)
        night_range == calc_range(night_shifts, night_capable)
        day_range == calc_range(day_shifts, night_capable)
        total_range == calc_range(total_shifts, Staff)
        holidayPenalty == [p \in Staff |->
            IF st[p].holiday_shifts > 0 /\ st[p].weekend_shifts > 0 THEN 200 ELSE 0]
        multi24h == [p \in Staff |->
            IF st[p].shifts_24h > 1 THEN 100 * (st[p].shifts_24h - 1) ELSE 0]
        whole ==
              weekend_range * 100 + (IF weekend_range > 1 THEN 50 ELSE 0)
            + night_range * 80 + (IF night_range > 1 THEN 40 ELSE 0)
            + day_range * 60 + (IF day_range > 1 THEN 30 ELSE 0)
            + total_range * 40
            + SumOver(holidayPenalty, Staff)
            + SumOver(multi24h, Staff)
    IN  whole * VarScale
        + calc_variance_scaled(weekend_shifts, non_holiday_workers) * 10
        + calc_variance_scaled(night_shifts, night_capable) * 8
        + calc_variance_scaled(day_shifts, night_capable) * 6

\* "weekend_shifts = [p.weekend_shifts for p in non_holiday_workers]"
_calculate_fairness_score(st) ==
    fairness_score(st, [p \in Staff |-> st[p].weekend_shifts])

\* a validation that looks at the Day coverage only (sensitivity variant)
DayCoverageOnly(S) ==
    \A d \in Dates : is_holiday(d) \/ ~(DayCount(S, d) < 1)

\* ------------------------------------------------------ _validate_coverage
_validate_coverage(S) ==
    \A d \in Dates :
        is_holiday(d) \/ ~(DayCount(S, d) < 1 \/ NightCount(S, d) < 1)

\* ------------------------------------------------------ _find_replacement
calculate_priority(st, p, d, k) ==
    - st[p].total_shifts * 100
    - (IF k \in NightKinds THEN st[p].night_shifts * 10 ELSE st[p].day_shifts * 10)
    - (IF is_weekend(d) THEN st[p].weekend_shifts * 50 ELSE 0)

\* candidates[0][0] after the stable descending sort: the first person in
\* roster order among those of the highest priority
FirstBest(st, P, d, k) ==
    LET top == SetMax({calculate_priority(st, q, d, k) : q \in P})
    IN  SetMin({p \in P : calculate_priority(st, p, d, k) = top})

\* the force tier held to the normal night gap (sensitivity variant)
ForceWithNormalNightGap(S, st, p, d, k) ==
    /\ CapabilityOk(p, k)
    /\ d \notin st[p].assigned_dates
    /\ (k \in NightKinds =>
            /\ _check_night_gap_with_all_shifts(S, p, d, MIN_NIGHT_TO_NIGHT_GAP)
            /\ _check_reverse_night_to_day_gap(S, p, d, MIN_NIGHT_TO_DAY_GAP))
    /\ (k \in DayKinds =>
            /\ _check_night_to_day_gap(S, p, d, MIN_NIGHT_TO_DAY_GAP)
            /\ _check_day_gap_with_all_shifts(S, p, d, MIN_DAY_TO_DAY_GAP))

ForceFilter(S, st, p, d, k) ==
    /\ CapabilityOk(p, k)
    /\ d \notin st[p].assigned_dates
    /\ (k \in NightKinds =>
            /\ _check_night_gap_with_all_shifts(S, p, d, EMERGENCY_NIGHT_TO_NIGHT_GAP)
            /\ _check_reverse_night_to_day_gap(S, p, d, MIN_NIGHT_TO_DAY_GAP))
    /\ (k \in DayKinds =>
            /\ _check_night_to_day_gap(S, p, d, MIN_NIGHT_TO_DAY_GAP)
            /\ _check_day_gap_with_all_shifts(S, p, d, MIN_DAY_TO_DAY_GAP))

\* a last try that asks for capability and a free date only (sensitivity
\* variant)
AbsoluteForceWithoutGaps(S, st, p, d, k) ==
    /\ CapabilityOk(p, k)
    /\ d \notin st[p].assigned_dates

AbsoluteForceFilter(S, st, p, d, k) ==
    /\ CapabilityOk(p, k)
    /\ d \notin st[p].assigned_dates
    /\ (k \in NightKinds =>
            /\ _check_night_gap_with_all_shifts(S, p, d, EMERGENCY_NIGHT_TO_NIGHT_GAP)
            /\ _check_reverse_night_to_day_gap(S, p, d, MIN_NIGHT_TO_DAY_GAP))
    /\ (k \in DayKinds =>
            /\ _check_day_gap_with_all_shifts(S, p, d, MIN_DAY_TO_DAY_GAP)
            /\ _check_night_to_day_gap(S, p, d, MIN_NIGHT_TO_DAY_GAP))

TierCandidates(S, st, d, k, exclude_name, tier) ==
    {p \in Staff \ {exclude_name} :
        CASE tier = "normal" -> _can_assign_shift(S, st, p, d, k)
          [] tier = "emergency" -> _emergency_can_assign(S, st, p, d, k)
          [] tier = "force" -> ForceFilter(S, st, p, d, k)
          [] tier = "absolute" -> AbsoluteForceFilter(S, st, p, d, k)}

\* the third try made before the second (sensitivity variant)
ForceBeforeEmergency(st, d, k, normal, emergency, force, absolute) ==
    IF normal # {} THEN [tier |-> "normal", person |-> FirstBest(st, normal, d, k)]
    ELSE IF force # {} THEN [tier |-> "force", person |-> FirstBest(st, force, d, k)]
    ELSE IF emergency # {}
    THEN [tier |-> "emergency", person |-> FirstBest(st, emergency, d, k)]
    ELSE IF absolute # {}
    THEN [tier |-> "absolute", person |-> FirstBest(st, absolute, d, k)]
    ELSE [tier |-> "none", person |-> 0]

\* "if candidates: ... return candidates[0][0]" after each of the four
\* tries; .person is 0 when the method returns None
FirstTier(st, d, k, normal, emergency, force, absolute) ==
    IF normal # {} THEN [tier |-> "normal", person |-> FirstBest(st, normal, d, k)]
    ELSE IF emergency # {}
    THEN [tier |-> "emergency", person |-> FirstBest(st, emergency, d, k)]
    ELSE IF force # {} THEN [tier |-> "force", person |-> FirstBest(st, force, d, k)]
    ELSE IF absolute # {}
    THEN [tier |-> "absolute", person |-> FirstBest(st, absolute, d, k)]
    ELSE [tier |-> "none", person |-> 0]

\* .person: the person returned, 0 for None; .tier: the try that found them
_find_replacement(S, st, d, k, exclude_name) ==
    FirstTier(st, d, k,
              TierCandidates(S, st, d, k, exclude_name, "normal"),
              TierCandidates(S, st, d, k, exclude_name, "emergency"),
              TierCandidates(S, st, d, k, exclude_name, "force"),
              TierCandidates(S, st, d, k, exclude_name, "absolute"))

\* --------------------------------------------------- reschedule_for_leave
RECURSIVE SortedDates(_)
SortedDates(D) ==
    IF D = {} THEN <<>>
    ELSE <<SetMin(D)>> \o SortedDates(D \ {SetMin(D)})

\* every shift of the person taken, whatever the leave dates (sensitivity
\* variant)
ShiftsOnAnyDate(S, name, leave_dates) ==
    SortedDates({S[i].date : i \in {j \in DOMAIN S : S[j].name = name}})

\* every shift of the person from the first leave date on (sensitivity
\* variant)
ShiftsFromFirstLeaveDate(S, name, leave_dates) ==
    SortedDates({S[i].date : i \in {j \in DOMAIN S :
                    S[j].name = name /\ \E d \in leave_dates : S[j].date >= d}})

\* the dates of shifts_to_reassign, sorted
shifts_to_reassign(S, name, leave_dates) ==
    SortedDates({S[i].date : i \in {j \in DOMAIN S : S[j].name = name /\ S[j].date \in leave_dates}})

Change(d, k, from, to, warn) ==
    [date |-> d, shift_type |-> k, from |-> from, to |-> to, warning |-> warn]

\* "if replacement: ... else: ..." for the shift e taken from the
\* leave-taker, S1 and st1 being the schedule and the counters without it
GiveOrRestore(S1, st1, e, replacement, chg) ==
    IF replacement.person # 0
    THEN [Sst |-> _assign_shift(S1, st1, replacement.person, e.date, e.shift,
                                replacement.tier),
          changes |-> Append(chg, Change(e.date, e.shift, e.name, replacement.person, FALSE))]
    ELSE [Sst |-> _assign_shift(S1, st1, e.name, e.date, e.shift, e.via),
          changes |-> Append(chg, Change(e.date, e.shift, e.name, e.name, TRUE))]

\* one pass of "for d, shift_type in shifts_to_reassign", S1 and st1 being
\* the schedule and the counters once the shift e is removed
RemovedThenReplaced(S1, st1, e, chg) ==
    GiveOrRestore(S1, st1, e, _find_replacement(S1, st1, e.date, e.shift, e.name), chg)

ReassignOne(S, st, e, chg) ==
    RemovedThenReplaced(RemoveEntry(S, e.name, e.date),
                        [st EXCEPT ![e.name] = UnassignStats(@, e.date, e.shift)],
                        e, chg)

\* the for loop over the dates todo, from the state r
RECURSIVE ReassignLoop(_, _, _)
ReassignLoop(r, name, todo) ==
    IF todo = <<>> THEN r
    ELSE ReassignLoop(
            ReassignOne(r.Sst[1], r.Sst[2],
                        Entry(name, Head(todo), ShiftOf(r.Sst[1], name, Head(todo)),
                              ViaOf(r.Sst[1], name, Head(todo))),
                        r.changes),
            name, Tail(todo))

\* .Sst: <<schedule, stats>> after the call; .changes: the list returned
reschedule_for_leave(S, st, leave_person_name, leave_dates) ==
    IF leave_person_name \notin Staff
    THEN [Sst |-> <<S, st>>, changes |-> <<>>]
    ELSE ReassignLoop([Sst |-> <<S, st>>, changes |-> <<>>], leave_person_name,
                      shifts_to_reassign(S, leave_person_name, leave_dates))

\* ------------------------------------------------------ _calculate_targets
\* avg_shifts_per_person as the fraction num/den, with the day_shifts_per_day
\* the constructor ends with (effective_staff is E2 / 2)
AvgOf(numDays, holidays, staff, dpd, npd) ==
    LET working_days == Cardinality((1 .. numDays) \ holidays)
        total_shifts == dpd * working_days + npd * working_days
        ratio2 == [p \in DOMAIN staff |-> get_target_ratio2(staff[p])]
        E2 == SumOver(ratio2, DOMAIN staff)
    IN  IF E2 > 0 THEN [num |-> 2 * total_shifts, den |-> E2]
        ELSE [num |-> 0, den |-> 1]

\* Python's round() of the fraction num / den, num >= 0: to the nearest
\* integer, a half to the even one
round(num, den) ==
    LET q == num \div den
        r == num % den
    IN  IF 2 * r < den THEN q
        ELSE IF 2 * r > den THEN q + 1
        ELSE IF q % 2 = 0 THEN q ELSE q + 1

\* "person.target_shifts = round(raw_target)", raw_target being avg * ratio
target_shifts(staff, avg) ==
    [p \in DOMAIN staff |-> round(avg.num * get_target_ratio2(staff[p]), 2 * avg.den)]

\* the first average kept after day_shifts_per_day is raised (sensitivity
\* variant)
TargetsFromFirstAverage(numDays, holidays, staff, dpd, npd) ==
    LET avg == AvgOf(numDays, holidays, staff, dpd, npd)
    IN  [day_shifts_per_day |-> IF avg.num < AVG_SURPLUS_LIMIT * avg.den /\ dpd = 1
                                THEN 2 ELSE dpd,
         avg |-> avg, recalculations |-> 0,
         target_shifts |-> target_shifts(staff, avg)]

\* the method and the call it makes to itself under "Check surplus logic";
\* .recalculations counts those calls
RECURSIVE _calculate_targets(_, _, _, _, _)
_calculate_targets(numDays, holidays, staff, dpd, npd) ==
    LET avg == AvgOf(numDays, holidays, staff, dpd, npd)
    IN  IF avg.num < AVG_SURPLUS_LIMIT * avg.den /\ dpd = 1
        THEN [_calculate_targets(numDays, holidays, staff, 2, npd)
                EXCEPT !.recalculations = @ + 1]
        ELSE [day_shifts_per_day |-> dpd, avg |-> avg, recalculations |-> 0,
              target_shifts |-> target_shifts(staff, avg)]

\* the Scheduler after __init__
Scheduler(month, staff, holidays, dpd, npd) ==
    LET t == _calculate_targets(month.numDays, holidays, staff, dpd, npd)
    IN  [numDays |-> month.numDays, firstWeekday |-> month.firstWeekday,
         holidays |-> holidays, staff |-> staff,
         day_shifts_per_day |-> t.day_shifts_per_day,
         night_shifts_per_day |-> npd,
         avgNum |-> t.avg.num, avgDen |-> t.avg.den,
         target_shifts |-> t.target_shifts,
         recalculations |-> t.recalculations]

\* --------------------------------------------------------------- inputs
\* Person(name, can_do_night, can_do_24h, fixed_off_dates, fixed_on_dates)
NewPerson(can_do_night, can_do_24h, fixed_off_dates, fixed_on_dates) ==
    [can_do_night |-> can_do_night, can_do_24h |-> can_do_24h,
     fixed_off_dates |-> fixed_off_dates, fixed_on_dates |-> fixed_on_dates]

Plain == NewPerson(TRUE, TRUE, {}, <<>>)
DayOnly == NewPerson(FALSE, FALSE, {}, <<>>)
\* CanDoNight unticked, CanDo24h left at its default
DayAnd24h == NewPerson(FALSE, TRUE, {}, <<>>)

\* Scheduler(year, month, staff_list, holidays): the month is MaxDays long
\* and its first day falls on firstWeekday (0 is Monday)
Input(firstWeekday, staff, holidays) ==
    [month |-> [numDays |-> MaxDays, firstWeekday |-> firstWeekday],
     staff |-> staff, holidays |-> holidays]

\* Months starting on a Wednesday: 2 is a Thursday, 4 and 5 the weekend.
\* A weekend to cover with one member who drew the Friday holiday and three
\* who are off on the Saturday
WeekendRoster ==
    <<NewPerson(TRUE, TRUE, {}, <<<<3, DAY>>>>), Plain,
      NewPerson(TRUE, TRUE, {4}, <<>>), NewPerson(FALSE, FALSE, {4}, <<>>),
      NewPerson(TRUE, TRUE, {4}, <<>>)>>

\* one member able to work nights beside two who are not
SmallRoster == <<Plain, DayOnly, DayAnd24h>>

\* a roster whose first schedules the optimization pass rebalances
SwapRoster == <<NewPerson(FALSE, TRUE, {7}, <<>>), Plain, Plain>>

\* three members with no restriction, for a month whose only working days
\* are the first two
PlainRoster == <<Plain, Plain, Plain>>

\* a member pre-committed to the Sunday of a month whose other working day
\* is the Thursday before it
ThursdayRoster == <<NewPerson(TRUE, TRUE, {}, <<<<5, DAY>>>>), Plain, Plain>>

\* a member who drew the holiday of day 1, in a month whose only working
\* day is the Saturday
HolidayRoster == <<NewPerson(TRUE, TRUE, {}, <<<<1, DAY>>>>), Plain, Plain, Plain>>

\* a member who drew the Night of the holiday of day 8, in a month whose
\* only working day is the Saturday
FixedNightRoster == <<NewPerson(TRUE, TRUE, {}, <<<<8, NIGHT>>>>), Plain, Plain>>

\* a member whose fixedOffDates hold 14 dates, all of them after the days of
\* the month that are modelled, beside two with no restriction; the only
\* working day is the Saturday
HalfMonthRoster == <<NewPerson(TRUE, TRUE, 101 .. 114, <<>>), Plain, Plain>>

\* six members, one of them able to work nights, for a month that starts
\* on a Sunday and whose working days are its first two Sundays
WeekendBalanceRoster == <<DayOnly, DayOnly, DayOnly, DayOnly, Plain, DayOnly>>
BalancedInputs == {Input(6, WeekendBalanceRoster, (2 .. 7) \cup (9 .. MaxDays))}

\* two members who work days only, and a roster with nobody on it, each for
\* a month whose only working day is the first
NoNightRoster == <<DayOnly, DayOnly>>
EmptyRoster == <<>>

Inputs ==
    {Input(2, WeekendRoster, {1, 2, 3} \cup (6 .. MaxDays)),
     Input(2, SmallRoster, {2, 3, 5, 6} \cup (8 .. MaxDays)),
     Input(2, SmallRoster, {2, 3, 4, 5} \cup (7 .. MaxDays)),
     Input(2, SwapRoster, {2, 3, 4, 5, 6}),
     Input(2, PlainRoster, 3 .. MaxDays),
     Input(2, ThursdayRoster, {1, 3, 4} \cup (6 .. MaxDays)),
     Input(2, HolidayRoster, {1, 2, 3} \cup (5 .. MaxDays)),
     Input(2, FixedNightRoster, {1, 2, 3} \cup (5 .. MaxDays)),
     Input(2, HalfMonthRoster, {1, 2, 3} \cup (5 .. MaxDays)),
     Input(2, NoNightRoster, 2 .. MaxDays),
     Input(2, EmptyRoster, 2 .. MaxDays),
     Input(2, PlainRoster, 1 .. MaxDays)}

\* the months in which a leave, a fixed assignment or a weekend makes the
\* constraint tiers differ
TierInputs ==
    {Input(2, WeekendRoster, {1, 2, 3} \cup (6 .. MaxDays)),
     Input(2, SmallRoster, {2, 3, 4, 5} \cup (7 .. MaxDays)),
     Input(2, ThursdayRoster, {1, 3, 4} \cup (6 .. MaxDays)),
     Input(2, HolidayRoster, {1, 2, 3} \cup (5 .. MaxDays)),
     Input(2, FixedNightRoster, {1, 2, 3} \cup (5 .. MaxDays)),
     Input(2, HalfMonthRoster, {1, 2, 3} \cup (5 .. MaxDays))}

\* the months with one working day or with a fixed-on assignment
SmallMonthInputs ==
    {Input(2, WeekendRoster, {1, 2, 3} \cup (6 .. MaxDays)),
     Input(2, ThursdayRoster, {1, 3, 4} \cup (6 .. MaxDays)),
     Input(2, HolidayRoster, {1, 2, 3} \cup (5 .. MaxDays)),
     Input(2, FixedNightRoster, {1, 2, 3} \cup (5 .. MaxDays)),
     Input(2, HalfMonthRoster, {1, 2, 3} \cup (5 .. MaxDays))}

\* ------------------------------------------------- _process_fixed_assignments
\* "if d in self.dates: self._assign_shift(person, d, shift_type)"
AssignFixed(Sst, p, on) ==
    IF on[1] \in Dates THEN _assign_shift(Sst[1], Sst[2], p, on[1], on[2], "fixed")
    ELSE Sst

RECURSIVE ApplyFixedOf(_, _, _)
ApplyFixedOf(Sst, p, todo) ==
    IF todo = <<>> THEN Sst
    ELSE ApplyFixedOf(AssignFixed(Sst, p, Head(todo)), p, Tail(todo))

RECURSIVE ProcessFixedFrom(_, _)
ProcessFixedFrom(Sst, p) ==
    IF p > Len(cfg.staff) THEN Sst
    ELSE ProcessFixedFrom(ApplyFixedOf(Sst, p, Person(p).fixed_on_dates), p + 1)

\* <<schedule, stats>> after the method, from <<S, st>>
\* the fixed assignments written over whatever the object holds, with no
\* reset before them (sensitivity variant)
FixedOverEarlierAttempt(S, st) == ProcessFixedFrom(<<schedule, stats>>, 1)

_process_fixed_assignments(S, st) == ProcessFixedFrom(<<S, st>>, 1)

\* ------------------------------------------- _generate_single_schedule
\* The locals of the loop over self.dates: the date d, the loop being run
\* ("day", "night"; "end" after the last date), the iterations it has left,
\* day_slots_needed, night_slots_needed and assigned_today.
EndPos ==
    [d |-> 0, phase |-> "end", iters |-> 0, day_slots_needed |-> 0,
     night_slots_needed |-> 0, assigned_today |-> {}, improved |-> TRUE, iteration |-> 0]

\* one Night slot more than the date needs (sensitivity variant)
SlotsWithSpareNight(S, d) ==
    [day |-> cfg.day_shifts_per_day - DayCount(S, d),
     night |-> cfg.night_shifts_per_day - NightCount(S, d) + 1,
     assigned |-> {S[i].name : i \in {j \in DOMAIN S : S[j].date = d}}]

SlotsAt(S, d) ==
    [day |-> cfg.day_shifts_per_day - DayCount(S, d),
     night |-> cfg.night_shifts_per_day - NightCount(S, d),
     assigned |-> {S[i].name : i \in {j \in DOMAIN S : S[j].date = d}}]

\* the next point of the loop at which a candidate is selected, from the
\* top of the loop body for date d on
RECURSIVE FromDate(_, _)
FromDate(S, d) ==
    IF d > cfg.numDays THEN EndPos
    ELSE IF is_holiday(d) THEN FromDate(S, d + 1)
    ELSE LET n == SlotsAt(S, d)
         IN  IF Max2(0, n.day) > 0
             THEN [EndPos EXCEPT !.d = d, !.phase = "day", !.iters = n.day,
                                 !.day_slots_needed = n.day,
                                 !.night_slots_needed = n.night,
                                 !.assigned_today = n.assigned]
             ELSE IF Max2(0, n.night) > 0
             THEN [EndPos EXCEPT !.d = d, !.phase = "night", !.iters = n.night,
                                 !.day_slots_needed = n.day,
                                 !.night_slots_needed = n.night,
                                 !.assigned_today = n.assigned]
             ELSE FromDate(S, d + 1)

\* after one iteration of the Day loop of date q.d
AfterDayIteration(S, q) ==
    IF q.iters > 1 THEN [q EXCEPT !.iters = @ - 1]
    ELSE IF Max2(0, q.night_slots_needed) > 0
    THEN [q EXCEPT !.phase = "night", !.iters = q.night_slots_needed]
    ELSE FromDate(S, q.d + 1)

\* after one iteration of the Night loop of date q.d
AfterNightIteration(S, q) ==
    IF q.iters > 1 THEN [q EXCEPT !.iters = @ - 1]
    ELSE FromDate(S, q.d + 1)

NoOp == [op |-> "none", tier |-> "none", name |-> 0, date |-> 0, shift |-> NONE,
         leave_dates |-> {}, repeated |-> FALSE, args |-> <<>>]
Op(o, t, p, d, k) ==
    [op |-> o, tier |-> t, name |-> p, date |-> d, shift |-> k, leave_dates |-> {},
     repeated |-> FALSE, args |-> <<>>]
\* a call Scheduler(..., day_shifts_per_day, night_shifts_per_day)
ConstructOp(dpd, npd) ==
    [Op("construct", "none", 0, 0, NONE) EXCEPT !.args = <<dpd, npd>>]
\* a call reschedule_for_leave(leave_person_name, leave_dates); repeated
\* when the call before it, prev, was made with the same arguments
LeaveOp(leave_person_name, leave_dates, prev) ==
    [Op("leave", "none", leave_person_name, 0, NONE) EXCEPT
        !.leave_dates = leave_dates,
        !.repeated = /\ prev.op = "leave" /\ prev.name = leave_person_name
                     /\ prev.leave_dates = leave_dates]

\* what one attempt ended with: whether it passed validation and its
\* fairness score (-1 when it was not scored)
Outcome(valid, score) == [valid |-> valid, score |-> score]

NoBest == [isNone |-> TRUE, schedule |-> <<>>, stats |-> <<>>, score |-> -1]

\* ------------------------------------------------------------------ Init
InitFrom(sc) ==
    /\ cfg = Scheduler(sc.month, sc.staff, sc.holidays, 1, 1)
    /\ schedule = <<>>
    /\ stats = reset_monthly_stats(Len(sc.staff))
    /\ pc = "idle"
    /\ attempt = 0
    /\ pos = EndPos
    /\ best = NoBest
    /\ result = "none"
    /\ leaveCalls = 0
    /\ changes = <<>>
    /\ last = NoOp
    /\ log = <<>>

Init == \E sc \in Inputs : InitFrom(sc)
InitBalanced == \E sc \in BalancedInputs : InitFrom(sc)
InitTiers == \E sc \in TierInputs : InitFrom(sc)
InitSmallMonths == \E sc \in SmallMonthInputs : InitFrom(sc)

\* ---------------------------------------------------------------- __init__
\* The object when __init__ reaches "self._calculate_targets()": the
\* arguments are stored, no average and no target is computed yet.
HalfMonth == NewPerson(TRUE, TRUE, 101 .. 114, <<>>)
ConstructorRosters ==
    {<<Plain>>, <<Plain, Plain>>, <<Plain, Plain, Plain>>,
     <<Plain, Plain, Plain, Plain>>, <<HalfMonth>>, <<HalfMonth, Plain>>,
     <<HalfMonth, HalfMonth, Plain, Plain, Plain>>,
     <<HalfMonth, HalfMonth, HalfMonth, Plain>>}
ConstructorHolidays == {{}, {1}, {2, 3}, 3 .. MaxDays, 1 .. MaxDays}
MaxShiftsPerDay == 3

BeforeTargets(sc, dpd, npd) ==
    [numDays |-> sc.month.numDays, firstWeekday |-> sc.month.firstWeekday,
     holidays |-> sc.holidays, staff |-> sc.staff,
     day_shifts_per_day |-> dpd, night_shifts_per_day |-> npd,
     avgNum |-> 0, avgDen |-> 1,
     target_shifts |-> [p \in DOMAIN sc.staff |-> 0],
     recalculations |-> 0]

InitConstructor ==
    \E staff \in ConstructorRosters, holidays \in ConstructorHolidays,
       dpd \in 1 .. MaxShiftsPerDay, npd \in 1 .. MaxShiftsPerDay - 1 :
        /\ cfg = BeforeTargets(Input(2, staff, holidays), dpd, npd)
        /\ schedule = <<>>
        /\ stats = reset_monthly_stats(Len(staff))
        /\ pc = "new"
        /\ attempt = 0
        /\ pos = EndPos
        /\ best = NoBest
        /\ result = "none"
        /\ leaveCalls = 0
        /\ changes = <<>>
        /\ last = NoOp
        /\ log = <<>>

\* "self._calculate_targets()", the last statement of __init__
Construct ==
    /\ pc = "new"
    /\ cfg' = Scheduler([numDays |-> cfg.numDays, firstWeekday |-> cfg.firstWeekday],
                        cfg.staff, cfg.holidays,
                        cfg.day_shifts_per_day, cfg.night_shifts_per_day)
    /\ pc' = "idle"
    /\ last' = ConstructOp(cfg.day_shifts_per_day, cfg.night_shifts_per_day)
    /\ UNCHANGED <<schedule, stats, attempt, pos, best, result, leaveCalls, changes, log>>

\* ------------------------------------------------------ generate_schedule
num_attempts == MaxAttempts

CallGenerate ==
    /\ pc = "idle"
    /\ pc' = "attempt"
    /\ attempt' = 0
    /\ best' = NoBest
    /\ last' = Op("generate", "none", 0, 0, NONE)
    /\ log' = <<>>
    /\ UNCHANGED <<cfg, schedule, stats, pos, result, leaveCalls, changes>>

\* top of the for loop: reset, fixed assignments, entry into the search
StartAttempt ==
    /\ pc = "attempt"
    /\ attempt < num_attempts
    /\ \E r \in {_process_fixed_assignments(<<>>, reset_monthly_stats(Len(cfg.staff)))} :
         /\ schedule' = r[1]
         /\ stats' = r[2]
         /\ \E q \in {FromDate(r[1], 1)} :
              /\ pos' = q
              /\ pc' = IF q.phase = "end" THEN "validate" ELSE "search"
    /\ last' = Op("start", "none", 0, 0, NONE)
    /\ UNCHANGED <<cfg, attempt, best, result, leaveCalls, changes, log>>

\* the search goes on from position q with <<schedule, stats>> = r
Proceed(r, q) ==
    /\ schedule' = r[1]
    /\ stats' = r[2]
    /\ pos' = q
    /\ pc' = IF q.phase = "end" THEN "validate" ELSE "search"

\* a 24h assignment that leaves night_slots_needed as it was (sensitivity
\* variant)
Assign24hKeepingNightSlot(best_24h, tier) ==
    /\ \E r \in {_assign_shift(schedule, stats, best_24h, pos.d, FULL_24H, tier)} :
         Proceed(r, AfterDayIteration(r[1],
                        [pos EXCEPT !.assigned_today = @ \cup {best_24h}]))
    /\ last' = Op("assign", tier, best_24h, pos.d, FULL_24H)

\* "self._assign_shift(best_24h, d, ShiftType.FULL_24H); ...; continue"
Assign24h(best_24h, tier) ==
    /\ \E r \in {_assign_shift(schedule, stats, best_24h, pos.d, FULL_24H, tier)} :
         Proceed(r, AfterDayIteration(r[1],
                        [pos EXCEPT !.assigned_today = @ \cup {best_24h},
                                    !.night_slots_needed = @ - 1]))
    /\ last' = Op("assign", tier, best_24h, pos.d, FULL_24H)

\* "self._assign_shift(candidate, d, ShiftType.DAY)"
AssignDay(candidate, tier) ==
    /\ \E r \in {_assign_shift(schedule, stats, candidate, pos.d, DAY, tier)} :
         Proceed(r, AfterDayIteration(r[1],
                        [pos EXCEPT !.assigned_today = @ \cup {candidate}]))
    /\ last' = Op("assign", tier, candidate, pos.d, DAY)

\* one iteration of "for _ in range(max(0, day_slots_needed))"; coin is
\* the outcome of "random.random() < 0.15"
FillDaySlot ==
    /\ pc = "search"
    /\ pos.phase = "day"
    /\ \E sel \in {_select_best_candidate(schedule, stats, pos.d, DAY, pos.assigned_today)} :
         IF sel.cands = {}
         THEN /\ Proceed(<<schedule, stats>>, AfterDayIteration(schedule, pos))
              /\ last' = Op("skip", "none", 0, pos.d, DAY)
         ELSE \E candidate \in sel.cands, coin \in BOOLEAN :
                IF pos.night_slots_needed > 0 /\ ~is_weekend(pos.d) /\ coin
                THEN \E sel24 \in {_select_best_candidate(schedule, stats, pos.d, FULL_24H,
                                                          pos.assigned_today)} :
                        \/ \E best_24h \in sel24.cands :
                              /\ stats[best_24h].shifts_24h = 0
                              /\ Assign24h(best_24h, sel24.tier)
                        \/ /\ \/ sel24.cands = {}
                              \/ \E best_24h \in sel24.cands : stats[best_24h].shifts_24h # 0
                           /\ AssignDay(candidate, sel.tier)
                ELSE AssignDay(candidate, sel.tier)
    /\ UNCHANGED <<cfg, attempt, best, result, leaveCalls, changes, log>>

\* one iteration of "for _ in range(max(0, night_slots_needed))"
FillNightSlot ==
    /\ pc = "search"
    /\ pos.phase = "night"
    /\ \E sel \in {_select_best_candidate(schedule, stats, pos.d, NIGHT, pos.assigned_today)} :
         IF sel.cands = {}
         THEN /\ Proceed(<<schedule, stats>>, AfterNightIteration(schedule, pos))
              /\ last' = Op("skip", "none", 0, pos.d, NIGHT)
         ELSE \E candidate \in sel.cands :
                /\ \E r \in {_assign_shift(schedule, stats, candidate, pos.d, NIGHT, sel.tier)} :
                     Proceed(r, AfterNightIteration(r[1],
                                    [pos EXCEPT !.assigned_today = @ \cup {candidate}]))
                /\ last' = Op("assign", sel.tier, candidate, pos.d, NIGHT)
    /\ UNCHANGED <<cfg, attempt, best, result, leaveCalls, changes, log>>

\* "if not self._validate_coverage(): continue"
ValidateAttempt ==
    /\ pc = "validate"
    /\ IF _validate_coverage(schedule)
       THEN /\ pc' = "optimize"
            /\ pos' = [EndPos EXCEPT !.improved = TRUE, !.iteration = 0]
            /\ last' = Op("validate", "valid", 0, 0, NONE)
            /\ UNCHANGED <<attempt, log>>
       ELSE /\ pc' = "attempt"
            /\ attempt' = attempt + 1
            /\ pos' = EndPos
            /\ last' = Op("validate", "invalid", 0, 0, NONE)
            /\ log' = Append(log, Outcome(FALSE, -1))
    /\ UNCHANGED <<cfg, schedule, stats, best, result, leaveCalls, changes>>

\* one iteration of "while improved and iteration < max_iterations"
OptimizeRound ==
    /\ pc = "optimize"
    /\ pos.improved /\ pos.iteration < max_iterations
    /\ \E r \in {OptimizeRoundResult(schedule, stats)} :
         /\ schedule' = r.S
         /\ stats' = r.st
         /\ pos' = [pos EXCEPT !.improved = r.swapped, !.iteration = @ + 1]
         /\ last' = Op("optimize", IF r.swapped THEN "swapped" ELSE "none", 0, 0, NONE)
    /\ UNCHANGED <<cfg, pc, attempt, best, result, leaveCalls, changes, log>>

\* a snapshot kept on a score that is not higher (sensitivity variant)
KeepLatest(b, S, st, score) ==
    IF b.score = -1 \/ score <= b.score
    THEN [isNone |-> FALSE, schedule |-> S, stats |-> st, score |-> score]
    ELSE b

\* "if score < best_fairness_score:" takes the snapshot; best_fairness_score
\* starts at float('inf'), here a score of -1
KeepBest(b, S, st, score) ==
    IF b.score = -1 \/ score < b.score
    THEN [isNone |-> FALSE, schedule |-> S, stats |-> st, score |-> score]
    ELSE b

\* after the while loop: score the attempt and keep it if it is the best
FinishAttempt ==
    /\ pc = "optimize"
    /\ ~(pos.improved /\ pos.iteration < max_iterations)
    /\ \E score \in {_calculate_fairness_score(stats)} :
         /\ best' = KeepBest(best, schedule, stats, score)
         /\ log' = Append(log, Outcome(TRUE, score))
    /\ pc' = "attempt"
    /\ attempt' = attempt + 1
    /\ pos' = EndPos
    /\ last' = Op("score", "none", 0, 0, NONE)
    /\ UNCHANGED <<cfg, schedule, stats, result, leaveCalls, changes>>

\* after the for loop: "if best_schedule:" restores the snapshot
ReturnGenerate ==
    /\ pc = "attempt"
    /\ attempt >= num_attempts
    /\ IF ~best.isNone /\ Len(best.schedule) > 0
       THEN /\ schedule' = best.schedule
            /\ stats' = best.stats
            /\ result' = "True"
       ELSE /\ result' = "False"
            /\ UNCHANGED <<schedule, stats>>
    /\ pc' = "done"
    /\ last' = Op("return", "none", 0, 0, NONE)
    /\ UNCHANGED <<cfg, attempt, pos, best, leaveCalls, changes, log>>

\* ------------------------------------------------------- the leave API
LeaveNames == Staff \cup {0}
LeaveDateSets == {{d} : d \in Dates} \cup {Dates}

RescheduleForLeave ==
    /\ pc = "done"
    /\ leaveCalls < MaxLeaveCalls
    /\ \E name \in LeaveNames, leave_dates \in LeaveDateSets :
         \E r \in {reschedule_for_leave(schedule, stats, name, leave_dates)} :
             /\ schedule' = r.Sst[1]
             /\ stats' = r.Sst[2]
             /\ changes' = r.changes
             /\ last' = LeaveOp(name, leave_dates, last)
    /\ leaveCalls' = leaveCalls + 1
    /\ best' = NoBest
    /\ log' = <<>>
    /\ UNCHANGED <<cfg, pc, attempt, pos, result>>

Next ==
    \/ CallGenerate
    \/ StartAttempt
    \/ FillDaySlot
    \/ FillNightSlot
    \/ ValidateAttempt
    \/ OptimizeRound
    \/ FinishAttempt
    \/ ReturnGenerate
    \/ RescheduleForLeave

Spec == Init /\ [][Next]_vars
SpecBalanced == InitBalanced /\ [][Next]_vars
SpecTiers == InitTiers /\ [][Next]_vars
SpecSmallMonths == InitSmallMonths /\ [][Next]_vars
\* generate_schedule runs on one thread: a round of the while loop that can
\* begin does begin, and the scoring after the loop follows its last round.
\* RoundCanBegin is ENABLED <<OptimizeRound>>_vars, a round being possible in
\* every state that satisfies the loop condition and always counting
\* iteration up, so FairRounds is WF_vars(OptimizeRound) written out.
RoundCanBegin == pc = "optimize" /\ pos.improved /\ pos.iteration < max_iterations
FairRounds ==
    \/ []<>~RoundCanBegin
    \/ []<><<RoundCanBegin /\ pos'.iteration = pos.iteration + 1>>_vars
SpecOptimize == Init /\ [][Next]_vars /\ FairRounds /\ WF_vars(FinishAttempt)
NextConstructor == Construct
SpecConstructor == InitConstructor /\ [][NextConstructor]_vars

\* ============================================================ properties
Returned == pc = "done" /\ result = "True"

\* staff with a fixed-on assignment on a holiday date of the month
HolidayWorkers ==
    {p \in Staff :
        \E j \in DOMAIN Person(p).fixed_on_dates :
            Person(p).fixed_on_dates[j][1] \in cfg.holidays \cap Dates}

\* the schedule holds no item written by _process_fixed_assignments
OnlyCheckerApproved == \A i \in DOMAIN schedule : schedule[i].via # "fixed"

\* items i and j are two items of one person, not both fixed-on assignments
CheckedPair(i, j) ==
    /\ i # j
    /\ schedule[i].name = schedule[j].name
    /\ ~(schedule[i].via = "fixed" /\ schedule[j].via = "fixed")

\* C1: when generate_schedule returns True, every non-holiday date of the
\* stored schedule has at least one Day occupant and at least one Night
\* occupant, a 24h shift counting toward both.
C1_CoverageOnSuccess ==
    (Returned /\ leaveCalls = 0) =>
        \A d \in Dates :
            ~is_holiday(d) => DayCount(schedule, d) >= 1 /\ NightCount(schedule, d) >= 1

\* generate_schedule returned True with a date whose only Night occupant
\* holds a 24h shift
C1_Witness ==
    /\ Returned /\ leaveCalls = 0
    /\ \E i \in DOMAIN schedule :
        /\ schedule[i].shift = FULL_24H
        /\ ~is_holiday(schedule[i].date)
        /\ NightCount(schedule, schedule[i].date) = 1

\* C2: in every schedule generate_schedule returns True for, no Holiday
\* Worker holds a shift on a Saturday or a Sunday.
C2_HolidayWorkerOffWeekends ==
    (Returned /\ leaveCalls = 0) =>
        \A i \in DOMAIN schedule :
            schedule[i].name \in HolidayWorkers => ~is_weekend(schedule[i].date)

\* C3: after generate_schedule succeeds and after any reschedule_for_leave
\* calls, no person holds shifts on both the Saturday and the Sunday of one
\* weekend.
C3_NoWeekendPair ==
    Returned =>
        \A p \in Staff : \A d \in Dates :
            (Weekday(d) = 5 /\ d + 1 \in Dates) =>
                ~(HasEntry(schedule, p, d) /\ HasEntry(schedule, p, d + 1))

\* a change record of the call just made: the shift went to one other
\* person who now holds it, or came back to the leave-taker with a warning
ReplacedBy(c, S) ==
    /\ ~c.warning /\ c.to # c.from /\ c.to \in Staff
    /\ ShiftOf(S, c.to, c.date) = c.shift_type
    /\ ~HasEntry(S, c.from, c.date)

RestoredTo(c, S) ==
    /\ c.warning /\ c.to = c.from
    /\ ShiftOf(S, c.from, c.date) = c.shift_type

C4_Step ==
    (pc = "done" /\ leaveCalls' = leaveCalls + 1) =>
        /\ \A d \in Dates :
            /\ DayCount(schedule', d) = DayCount(schedule, d)
            /\ NightCount(schedule', d) = NightCount(schedule, d)
        /\ Len(schedule') = Len(schedule)
        /\ \A i \in DOMAIN changes' :
            /\ ShiftOf(schedule, changes'[i].from, changes'[i].date) = changes'[i].shift_type
            /\ ReplacedBy(changes'[i], schedule') \/ RestoredTo(changes'[i], schedule')
        /\ \A i \in DOMAIN schedule :
            ~HasEntry(schedule', schedule[i].name, schedule[i].date) =>
                \E j \in DOMAIN changes' :
                    /\ changes'[j].from = schedule[i].name
                    /\ changes'[j].date = schedule[i].date

\* C4: reschedule_for_leave never drops coverage: on every date the numbers
\* of Day and of Night occupants after the call equal those before it, each
\* shift taken from the leave-taker being given to exactly one replacement
\* or, when the four tiers find nobody, restored to the leave-taker with a
\* warning.
C4_LeaveKeepsCoverage == [][C4_Step]_vars

\* a call that replaced one shift of the leave-taker and restored another
C4_Witness ==
    /\ leaveCalls > 0 /\ last.op = "leave"
    /\ \E i, j \in DOMAIN changes : changes[i].warning /\ ~changes[j].warning

NoFixedOn == \A p \in Staff : Person(p).fixed_on_dates = <<>>

AllNightsNormalTier ==
    \A i \in DOMAIN schedule :
        schedule[i].shift \in NightKinds => schedule[i].via \in {"normal", "swap"}

\* C5: with no fixed-on assignments and every Night/24h assignment accepted
\* by the normal check (search or optimization swap), any two distinct
\* Night/24h assignments of one person are at least 5 days apart.
C5_NormalNightsFiveApart ==
    (NoFixedOn /\ AllNightsNormalTier) =>
        \A p \in Staff : \A d1, d2 \in NightDatesOf(schedule, p) :
            d1 # d2 => Abs(d1 - d2) >= 5

\* a returned schedule of normal-tier nights in which one person holds two
\* nights exactly 5 days apart
C5_Witness ==
    /\ Returned /\ NoFixedOn /\ AllNightsNormalTier
    /\ \E p \in Staff : \E d \in NightDatesOf(schedule, p) :
        d + 5 \in NightDatesOf(schedule, p)

\* C6 as stated: no returned schedule of checker-approved assignments holds
\* two Night/24h assignments of one person fewer than 4 days apart.
C6_NightsFourApart ==
    (Returned /\ OnlyCheckerApproved) =>
        \A p \in Staff : \A d1, d2 \in NightDatesOf(schedule, p) :
            d1 # d2 => Abs(d1 - d2) >= 4

\* C6: the emergency check and the force and absolute-force tiers refuse a
\* Night/24h assignment dated fewer than 3 days from an existing Night/24h
\* assignment of the person, so two nights of one person of which at least
\* one passed a checker are at least 3 days apart.
C6_NightsThreeApart ==
    \A i, j \in DOMAIN schedule :
        (CheckedPair(i, j) /\ schedule[i].shift \in NightKinds
                           /\ schedule[j].shift \in NightKinds) =>
            Abs(schedule[i].date - schedule[j].date) >= 3

\* a returned schedule with a night accepted by the emergency check exactly
\* 3 days after another night of the same person
C6_Witness ==
    \E i, j \in DOMAIN schedule :
        /\ Returned /\ CheckedPair(i, j)
        /\ schedule[i].shift \in NightKinds /\ schedule[j].shift \in NightKinds
        /\ schedule[j].via = "emergency"
        /\ schedule[j].date - schedule[i].date = 3

C8_DaysFourApart ==
    (Returned /\ OnlyCheckerApproved) =>
        \A p \in Staff : \A d1, d2 \in DayDatesOf(schedule, p) :
            d1 # d2 => Abs(d1 - d2) >= 4

\* C8: at every tier a Day/24h assignment is refused when the person holds
\* a Day/24h assignment fewer than 3 days away, so two Day/24h assignments
\* of one person of which at least one passed a checker are at least 3 days
\* apart.
C8_DaysThreeApart ==
    \A i, j \in DOMAIN schedule :
        (CheckedPair(i, j) /\ schedule[i].shift \in DayKinds
                           /\ schedule[j].shift \in DayKinds) =>
            Abs(schedule[i].date - schedule[j].date) >= 3

\* a returned schedule of checker-approved assignments in which one person
\* holds Day/24h shifts exactly 3 days apart
C8_Witness ==
    /\ Returned /\ OnlyCheckerApproved
    /\ \E p \in Staff : \E d \in DayDatesOf(schedule, p) :
        d + 3 \in DayDatesOf(schedule, p)

\* C9: no shift given by the search, by an optimization swap or by leave
\* replacement falls on a date in the person's fixed_off_dates.
C9_NeverOnFixedOff ==
    \A i \in DOMAIN schedule :
        schedule[i].via # "fixed" =>
            schedule[i].date \notin Person(schedule[i].name).fixed_off_dates

\* C10: in the schedule generate_schedule returns, and after any leave
\* replacement, no shift given by the search, by an optimization swap or by
\* leave replacement puts a person with can_do_night = False in a night slot
\* (Night or 24h), or gives a 24h shift to a person with can_do_24h = False.
C10_CapabilityRespected ==
    Returned =>
        \A i \in DOMAIN schedule :
            schedule[i].via # "fixed" =>
                /\ schedule[i].shift \in NightKinds => Person(schedule[i].name).can_do_night
                /\ schedule[i].shift = FULL_24H => Person(schedule[i].name).can_do_24h

\* C11: in every schedule generate_schedule returns True for, no person who
\* holds a Night or 24h shift on a Thursday also holds a shift on the
\* Saturday or the Sunday that follows it.
C11_ThursdayNightFreesWeekend ==
    (Returned /\ leaveCalls = 0) =>
        \A p \in Staff : \A d \in NightDatesOf(schedule, p) :
            is_thursday(d) =>
                ~(HasEntry(schedule, p, d + 2) \/ HasEntry(schedule, p, d + 3))

C12_Step ==
    (pc = "done" /\ leaveCalls' = leaveCalls + 1) =>
        \A i \in DOMAIN changes' :
            (~changes'[i].warning /\ is_weekend(changes'[i].date)) =>
                ~(changes'[i].to \in HolidayWorkers
                  /\ stats[changes'[i].to].holiday_shifts > 0)

\* C12: reschedule_for_leave never gives a weekend shift to a holiday
\* worker, at any of its four tiers.
C12_LeaveKeepsHolidayWorkersOffWeekends == [][C12_Step]_vars

\* the fairness scores of the attempts so far that passed validation
ValidScores(l) == {l[i].score : i \in {j \in DOMAIN l : l[j].valid}}

C13_Step ==
    /\ (pc = "optimize" /\ pc' = "attempt") =>
            IF \A x \in ValidScores(log) : _calculate_fairness_score(stats) < x
            THEN /\ best'.schedule = schedule
                 /\ best'.stats = stats
                 /\ best'.score = _calculate_fairness_score(stats)
            ELSE best' = best
    /\ (pc \in {"attempt", "search", "validate"} /\ pc' # "done") => best' = best
    /\ (pc = "optimize" /\ pc' = "optimize") => best' = best
    /\ (pc = "attempt" /\ pc' = "done" /\ result' = "True") =>
            /\ schedule' = best.schedule
            /\ stats' = best.stats
            /\ ValidScores(log) # {}
            /\ best.score = SetMin(ValidScores(log))

\* C13: when generate_schedule returns True, the stored schedule and every
\* person's counters are the snapshot of the valid attempt with the lowest
\* fairness score, the earliest such attempt on ties: a scored attempt
\* replaces the snapshot only when its score is strictly below the score of
\* every earlier valid attempt, nothing else touches the snapshot, and the
\* return restores it whatever the later attempts left behind.
C13_BestSnapshotReturned == [][C13_Step]_vars

\* a True return after two valid attempts of which the first is kept
C13_Witness ==
    /\ Returned /\ leaveCalls = 0
    /\ Len(log) >= 2 /\ log[1].valid /\ log[2].valid
    /\ log[1].score <= log[2].score
    /\ best.score = log[1].score /\ schedule = best.schedule

\* C14: generate_schedule returns False if and only if none of its attempts
\* passed coverage validation.
C14_FalseIffNoValidAttempt ==
    (pc = "done" /\ leaveCalls = 0) =>
        (result = "False" <=> \A i \in DOMAIN log : ~log[i].valid)

\* C15: after generate_schedule returns False the stored schedule and the
\* counters expose no assignment made by the search of a failed attempt.
C15_FailureExposesNoAttempt ==
    (pc = "done" /\ result = "False" /\ leaveCalls = 0) =>
        /\ \A i \in DOMAIN schedule : schedule[i].via = "fixed"
        /\ \A p \in Staff :
            stats[p].total_shifts
                = Cardinality({i \in DOMAIN schedule : schedule[i].name = p})


\* C16: when generate_schedule has returned True every required slot is
\* filled: each non-holiday date has at least day_shifts_per_day Day occupants
\* and at least night_shifts_per_day Night occupants (a 24h shift counts in
\* both).
C16_EverySlotFilled ==
    (Returned /\ leaveCalls = 0) =>
        \A d \in Dates :
            ~is_holiday(d) =>
                /\ DayCount(schedule, d) >= cfg.day_shifts_per_day
                /\ NightCount(schedule, d) >= cfg.night_shifts_per_day

\* C17: when generate_schedule has returned True, every date of the month
\* listed in a person's fixedOnDates carries that person with the fixed shift
\* kind; neither the search nor the optimization swaps moved or replaced it.
C17_FixedOnKept ==
    (Returned /\ leaveCalls = 0) =>
        \A p \in Staff : \A j \in DOMAIN Person(p).fixed_on_dates :
            Person(p).fixed_on_dates[j][1] \in Dates =>
                ShiftOf(schedule, p, Person(p).fixed_on_dates[j][1])
                    = Person(p).fixed_on_dates[j][2]

\* C18: from the end of fixed-on processing until generate_schedule returns,
\* the set of holiday workers (holiday_shifts > 0) is the set of persons
\* whose fixedOnDates contain a holiday date of the month; no search
\* assignment and no optimization swap adds or removes a member.
C18_HolidayWorkersConstant ==
    (leaveCalls = 0 /\ (pc \in {"search", "validate", "optimize"} \/ Returned)) =>
        {p \in Staff : stats[p].holiday_shifts > 0} = HolidayWorkers

\* the dates on which the person of the call holds a shift, among the leave
\* dates of the call
HeldOnLeave(S, o) == {d \in o.leave_dates : HasEntry(S, o.name, d)}

C19_Step ==
    (pc = "done" /\ leaveCalls' = leaveCalls + 1) =>
        /\ Len(changes') = Cardinality(HeldOnLeave(schedule, last'))
        /\ {changes'[i].date : i \in DOMAIN changes'} = HeldOnLeave(schedule, last')
        /\ \A i, j \in DOMAIN changes' : i < j => changes'[i].date < changes'[j].date
        /\ \A i \in DOMAIN changes' :
            /\ changes'[i].shift_type = ShiftOf(schedule, last'.name, changes'[i].date)
            /\ changes'[i].from = last'.name
            /\ changes'[i].to \in Staff
            /\ (changes'[i].to # changes'[i].from) <=> ~changes'[i].warning
            /\ changes'[i].warning =>
                    ShiftOf(schedule', last'.name, changes'[i].date) = changes'[i].shift_type

\* C19: reschedule_for_leave returns exactly one change record per shift the
\* leave-taker held on the leave dates, in ascending date order, each with
\* the date, the shift kind, the original holder and the new holder; the new
\* holder differs from the original exactly when the record has no warning,
\* and after a record with a warning the leave-taker still holds the shift.
C19_OneRecordPerShift == [][C19_Step]_vars

C19_Witness ==
    /\ pc = "done" /\ last.op = "leave"
    /\ Len(changes) >= 2
    /\ \E i \in DOMAIN changes : changes[i].warning
    /\ \E i \in DOMAIN changes : ~changes[i].warning

\* the positions of the shifts p holds in S
HeldBy(S, p) == {i \in DOMAIN S : S[i].name = p}

\* the counters of p in st are the recount of the shifts p holds in S
CountersMatch(S, st, p) ==
    /\ st[p].total_shifts = Cardinality(HeldBy(S, p))
    /\ st[p].day_shifts = Cardinality({i \in HeldBy(S, p) : S[i].shift \in {DAY, FULL_24H}})
    /\ st[p].night_shifts = Cardinality({i \in HeldBy(S, p) : S[i].shift \in {NIGHT, FULL_24H}})
    /\ st[p].shifts_24h = Cardinality({i \in HeldBy(S, p) : S[i].shift = FULL_24H})
    /\ st[p].weekend_shifts = Cardinality({i \in HeldBy(S, p) : is_weekend(S[i].date)})
    /\ st[p].weighted_total
        = SumOver([i \in HeldBy(S, p) |-> SHIFT_WEIGHTS(S[i].shift)], HeldBy(S, p))

C20_Step ==
    (pc = "done" /\ leaveCalls' = leaveCalls + 1) =>
        /\ last'.name \in Staff => CountersMatch(schedule', stats', last'.name)
        /\ (last.op = "leave" /\ last'.name = last.name
                /\ last'.leave_dates = last.leave_dates) =>
                \A i \in DOMAIN changes' :
                    \E j \in DOMAIN changes :
                        changes[j].date = changes'[i].date /\ changes[j].warning

\* C20: processing the same leave request twice does not double-decrement
\* counters: the second call removes no shift the first call handed over,
\* and after each call the leave-taker's total, day, night, 24h, weekend and
\* weighted counters equal the recount of the shifts they hold.
C20_RepeatedLeaveKeepsCounters == [][C20_Step]_vars

C20_Witness ==
    /\ pc = "done" /\ last.op = "leave" /\ last.repeated /\ last.name \in Staff
    /\ \E d \in last.leave_dates :
        /\ ~HasEntry(schedule, last.name, d)
        /\ \E p \in Staff : ViaOf(schedule, p, d) \in {"force", "absolute"}
        /\ \A i \in DOMAIN changes : changes[i].date # d

C21_Step ==
    (pc = "attempt" /\ 0 \in ValidScores(log)) => pc' \notin {"search", "validate"}

\* C21: generate_schedule stops early: once a valid attempt with fairness
\* score 0 has been found, no further attempt is run.
C21_StopsAtZeroScore == [][C21_Step]_vars

\* the configurations the claim calls fatal: nobody on the roster, or a
\* Night to cover on some working day and nobody with can_do_night
ConfigurationInvalid ==
    \/ Staff = {}
    \/ /\ cfg.night_shifts_per_day > 0
       /\ \E d \in Dates : ~is_holiday(d)
       /\ \A p \in Staff : ~Person(p).can_do_night

\* C22: with an empty roster, or with no night-capable staff while night
\* shifts are required, no scheduling attempt runs.
C22_NoAttemptOnBadConfiguration ==
    ConfigurationInvalid => /\ pc \notin {"search", "validate", "optimize"}
                            /\ attempt = 0

\* the staffing the claim calls balanced: nobody has fixed-on or fixed-off
\* dates and the staff count divides the number of weekend slots
WeekendSlots ==
    Cardinality({d \in Dates : is_weekend(d) /\ ~is_holiday(d)})
        * (cfg.day_shifts_per_day + cfg.night_shifts_per_day)
BalancedStaffing ==
    /\ Staff # {}
    /\ \A p \in Staff : Person(p).fixed_on_dates = <<>> /\ Person(p).fixed_off_dates = {}
    /\ WeekendSlots > 0
    /\ WeekendSlots % Cardinality(Staff) = 0

\* C23: for balanced staffing the schedule returned by generate_schedule has
\* a weekend-shift count range (max minus min) of at most 1 among the
\* persons who are not holiday workers.
C23_WeekendRangeAtMostOne ==
    (Returned /\ leaveCalls = 0 /\ BalancedStaffing) =>
        \A p, q \in {r \in Staff : stats[r].holiday_shifts = 0} :
            stats[p].weekend_shifts - stats[q].weekend_shifts <= 1

\* C24: a person's target ratio is 0.5 exactly when they have 14 or more
\* fixed-off dates, and every fairness comparison uses that person's raw
\* count doubled exactly when the ratio is 0.5; in particular the fairness
\* score of an attempt is the score of the doubled weekend counts.
C24_ComparisonsNormalised ==
    /\ \A p \in Staff :
        IsHalf(p) <=> Cardinality(Person(p).fixed_off_dates) >= 14
    /\ (pc = "optimize" /\ ~(pos.improved /\ pos.iteration < max_iterations)) =>
        _calculate_fairness_score(stats)
            = fairness_score(stats, [p \in Staff |-> Norm(p, stats[p].weekend_shifts)])

\* the working days and twice the effective staff count of the object c
WorkingDays(c) == Cardinality((1 .. c.numDays) \ c.holidays)
EffectiveStaff2(c) ==
    SumOver([p \in DOMAIN c.staff |->
                IF Cardinality(c.staff[p].fixed_off_dates) >= 14 THEN 1 ELSE 2],
            DOMAIN c.staff)
\* the shifts of the month with dpd Day shifts a day
TotalShifts(c, dpd) == (dpd + c.night_shifts_per_day) * WorkingDays(c)
\* whether the average of the object c, as supplied, is below 4
AverageBelowFour(c) ==
    2 * TotalShifts(c, c.day_shifts_per_day) < 4 * EffectiveStaff2(c)
RaisedDayShifts(c) ==
    IF c.day_shifts_per_day = 1 /\ AverageBelowFour(c) THEN 2 ELSE c.day_shifts_per_day

C25_Step ==
    (pc = "new" /\ pc' = "idle") =>
        /\ cfg'.day_shifts_per_day = RaisedDayShifts(cfg)
        /\ cfg'.night_shifts_per_day = cfg.night_shifts_per_day
        /\ cfg'.avgNum * EffectiveStaff2(cfg)
            = 2 * TotalShifts(cfg, RaisedDayShifts(cfg)) * cfg'.avgDen
        /\ \A p \in DOMAIN cfg.staff :
            2 * Abs(cfg'.target_shifts[p] * EffectiveStaff2(cfg)
                    - TotalShifts(cfg, RaisedDayShifts(cfg))
                        * (IF Cardinality(cfg.staff[p].fixed_off_dates) >= 14 THEN 1 ELSE 2))
                <= EffectiveStaff2(cfg)
        /\ cfg'.recalculations <= 1
        /\ cfg'.recalculations = 1 <=> cfg'.day_shifts_per_day # cfg.day_shifts_per_day

\* C25: on construction, if day_shifts_per_day is 1 and the average number
\* of shifts per effective staff member (half-month staff counted as 0.5,
\* holidays excluded from the working days) is below 4, day_shifts_per_day
\* becomes 2 and every person's target is the rounded share of the average
\* recomputed with 2 day shifts; the recomputation happens at most once, and
\* in every other case day_shifts_per_day is left as supplied.
C25_SurplusRaisesDayShifts == [][C25_Step]_vars

C25_Witness ==
    /\ pc = "idle" /\ last.op = "construct"
    /\ last.args[1] = 1 /\ cfg.day_shifts_per_day = 2 /\ cfg.recalculations = 1
    /\ \E p, q \in Staff : IsHalf(p) /\ ~IsHalf(q) /\ cfg.target_shifts[p] > 0

\* C26: the constraint tiers are of increasing permissiveness for every
\* person, date, shift kind and schedule state: whatever _can_assign_shift
\* accepts _emergency_can_assign accepts, and whatever _emergency_can_assign
\* accepts the force-tier filter of _find_replacement accepts.
C26_TiersIncreasinglyPermissive ==
    \A p \in Staff : \A d \in Dates : \A k \in ShiftType :
        /\ \/ _emergency_can_assign(schedule, stats, p, d, k)
           \/ ~_can_assign_shift(schedule, stats, p, d, k)
        /\ \/ ForceFilter(schedule, stats, p, d, k)
           \/ ~_emergency_can_assign(schedule, stats, p, d, k)

\* a returned schedule in which the three tiers differ: somebody passes the
\* emergency check only, and somebody passes the force filter only
C26_Witness ==
    /\ Returned
    /\ \E p \in Staff : \E d \in Dates : \E k \in ShiftType :
        /\ _emergency_can_assign(schedule, stats, p, d, k)
        /\ ~_can_assign_shift(schedule, stats, p, d, k)
    /\ \E p \in Staff : \E d \in Dates : \E k \in ShiftType :
        /\ ForceFilter(schedule, stats, p, d, k)
        /\ ~_emergency_can_assign(schedule, stats, p, d, k)
    /\ \E p \in Staff : \E d \in Dates : \E k \in ShiftType :
        _can_assign_shift(schedule, stats, p, d, k)

\* the tries of _find_replacement in the order the method makes them
TierOrder == <<"normal", "emergency", "force", "absolute">>
TierRank(t) == CHOOSE i \in 1 .. 4 : TierOrder[i] = t

\* what _find_replacement returns when reschedule_for_leave takes the shift
\* of schedule item i away from its holder and looks for somebody else
ReplacementFor(i) ==
    _find_replacement(RemoveEntry(schedule, schedule[i].name, schedule[i].date),
                      [stats EXCEPT ![schedule[i].name] =
                            UnassignStats(@, schedule[i].date, schedule[i].shift)],
                      schedule[i].date, schedule[i].shift, schedule[i].name)

\* the people other than the holder of item i who pass try number n, once
\* the item is taken away
PassingTier(i, n) ==
    TierCandidates(RemoveEntry(schedule, schedule[i].name, schedule[i].date),
                   [stats EXCEPT ![schedule[i].name] =
                        UnassignStats(@, schedule[i].date, schedule[i].shift)],
                   schedule[i].date, schedule[i].shift, schedule[i].name,
                   TierOrder[n])

\* C27: _find_replacement escalates strictly normal, emergency, force,
\* absolute-force: the person it returns passes the try that found them and
\* nobody other than the leave-taker passes a stricter try; it never returns
\* the leave-taker or a person already assigned on that date; it returns
\* None only when all four tries are empty.
C27_StrictEscalation ==
    pc = "done" =>
        \A i \in DOMAIN schedule :
            /\ ReplacementFor(i).person # schedule[i].name
            /\ ReplacementFor(i).person # 0 =>
                /\ ReplacementFor(i).person \in Staff
                /\ schedule[i].date \notin stats[ReplacementFor(i).person].assigned_dates
                /\ ReplacementFor(i).person
                        \in PassingTier(i, TierRank(ReplacementFor(i).tier))
                /\ \A n \in 1 .. (TierRank(ReplacementFor(i).tier) - 1) :
                        PassingTier(i, n) = {}
            /\ ReplacementFor(i).person = 0 =>
                \A n \in 1 .. 4 : PassingTier(i, n) = {}

\* after a leave that handed a shift to a force-tier replacement, a schedule
\* with a shift whose replacement is found by the emergency try, one whose
\* replacement is found by the normal try and one with no replacement
C27_Witness ==
    /\ pc = "done" /\ last.op = "leave"
    /\ \E i \in DOMAIN schedule : schedule[i].via = "force"
    /\ \E i \in DOMAIN schedule : ReplacementFor(i).tier = "emergency"
    /\ \E i \in DOMAIN schedule : ReplacementFor(i).tier = "normal"
    /\ \E i \in DOMAIN schedule : ReplacementFor(i).person = 0

\* the people outside the exclude set of the slot being filled who pass
\* _can_assign_shift, and those who pass _emergency_can_assign, for kind k
PassNormal(k) ==
    {p \in Staff \ pos.assigned_today : _can_assign_shift(schedule, stats, p, pos.d, k)}
PassEmergency(k) ==
    {p \in Staff \ pos.assigned_today : _emergency_can_assign(schedule, stats, p, pos.d, k)}

C28_Step ==
    pc = "search" =>
        /\ last'.op = "assign" =>
            /\ last'.name \notin pos.assigned_today
            /\ PassNormal(last'.shift) # {} =>
                    last'.tier = "normal" /\ last'.name \in PassNormal(last'.shift)
            /\ PassNormal(last'.shift) = {} =>
                    last'.tier = "emergency" /\ last'.name \in PassEmergency(last'.shift)
        /\ last'.op = "skip" =>
            PassNormal(last'.shift) = {} /\ PassEmergency(last'.shift) = {}

\* C28: _select_best_candidate returns a person who passes the normal
\* constraints whenever a non-excluded person passes them, a person who
\* passes the emergency constraints only when nobody passes the normal
\* ones, None only when nobody passes the emergency ones, and never a
\* person in the exclude set.
C28_NormalThenEmergency == [][C28_Step]_vars

\* a slot just given to an emergency-tier person, on a date where another
\* person holds a shift found under the normal constraints
C28_Witness ==
    /\ pc \in {"search", "validate"}
    /\ last.op = "assign" /\ last.tier = "emergency"
    /\ \E i \in DOMAIN schedule :
        /\ schedule[i].date = last.date /\ schedule[i].name # last.name
        /\ schedule[i].via = "normal"

\* the working weekend dates the loop of _generate_single_schedule has not
\* reached when it stands on pos.d
WeekendDatesAhead ==
    {w \in Dates : is_weekend(w) /\ ~is_holiday(w) /\ w > pos.d}

C29_Step ==
    (pc = "search" /\ last'.op = "assign" /\ ~is_weekend(pos.d))
        => WeekendDatesAhead = {}

\* C29: within one attempt the slots are filled in the phase order fixed-on
\* assignments, every weekend slot, Thursday-night slots, remaining
\* weekdays: the search fills no weekday slot while a weekend slot of the
\* month is still to be handled.
C29_WeekendsBeforeWeekdays == [][C29_Step]_vars

\* the counters of p that CountersMatch leaves out are those of the shifts
\* p holds in S
HistoryMatches(S, st, p) ==
    /\ st[p].assigned_dates = {S[i].date : i \in HeldBy(S, p)}
    /\ st[p].holiday_shifts = Cardinality({i \in HeldBy(S, p) : is_holiday(S[i].date)})
    /\ IF DayDatesOf(S, p) = {} THEN st[p].last_day_shift = 0
       ELSE st[p].last_day_shift \in DayDatesOf(S, p)
    /\ IF NightDatesOf(S, p) = {} THEN st[p].last_night_shift = 0
       ELSE st[p].last_night_shift \in NightDatesOf(S, p)

C30_Step ==
    (pc = "attempt" /\ pc' \in {"search", "validate"}) =>
        /\ \A i \in DOMAIN schedule' :
            /\ schedule'[i].via = "fixed"
            /\ \E j \in DOMAIN Person(schedule'[i].name).fixed_on_dates :
                Person(schedule'[i].name).fixed_on_dates[j]
                    = <<schedule'[i].date, schedule'[i].shift>>
        /\ \A p \in Staff :
            /\ CountersMatch(schedule', stats', p)
            /\ HistoryMatches(schedule', stats', p)

\* C30: at the start of every attempt the schedule is empty and every
\* person's counters are zero or empty before the fixed-on assignments are
\* applied: when the search of an attempt begins, the schedule holds the
\* fixed-on assignments only and every counter is the recount of them, so
\* nothing of an earlier attempt is visible.
C30_AttemptStartsFromScratch == [][C30_Step]_vars

\* the start of a later attempt, after an attempt whose search had filled
\* slots, in a month with a fixed-on assignment
C30_Witness ==
    /\ last.op = "start" /\ attempt >= 1
    /\ schedule # <<>>
    /\ \E i \in DOMAIN log : log[i].valid

\* the loop of date pos.d goes on with day Day iterations and night Night
\* slots left, or leaves the date when both are used up
LoopGoesOnWith(day, night) ==
    IF day > 0
    THEN /\ pc' = "search" /\ pos'.d = pos.d /\ pos'.phase = "day"
         /\ pos'.iters = day /\ pos'.night_slots_needed = night
    ELSE IF night > 0
    THEN /\ pc' = "search" /\ pos'.d = pos.d /\ pos'.phase = "night"
         /\ pos'.iters = night
    ELSE pc' = "validate" \/ pos'.d > pos.d

C31_Step ==
    (pc = "search" /\ last'.op = "assign" /\ last'.shift = FULL_24H) =>
        /\ ~is_weekend(pos.d)
        /\ pos.phase = "day" /\ pos.iters > 0
        /\ pos.night_slots_needed > 0
        /\ stats[last'.name].shifts_24h = 0
        /\ DayCount(schedule', pos.d) = DayCount(schedule, pos.d) + 1
        /\ NightCount(schedule', pos.d) = NightCount(schedule, pos.d) + 1
        /\ LoopGoesOnWith(pos.iters - 1, pos.night_slots_needed - 1)

\* C31: the search assigns a Full24h shift only on a non-weekend date, only
\* while that date still has an open Night slot, and only to a person with
\* no prior Full24h shift; the assignment consumes one Day slot and one
\* Night slot of the date.
C31_Full24hOnlyWhenAllowed == [][C31_Step]_vars

\* the search has just given a Full24h shift and goes on with the second
\* Day slot of the same date
C31_Witness ==
    /\ pc = "search" /\ last.op = "assign" /\ last.shift = FULL_24H
    /\ pos.d = last.date /\ pos.phase = "day"
    /\ pos.night_slots_needed = 0
    /\ stats[last.name].shifts_24h = 1

\* the least normalized night count among the night-capable staff
MinNormNight == SetMin({Norm(q, stats[q].night_shifts) : q \in NightCapable})

\* p is above that minimum
AboveMinimumNights(p) == Norm(p, stats[p].night_shifts) > MinNormNight

\* another night-capable person at the minimum passes the fairness-free
\* check for date d and kind k
OtherAtMinimumFree(p, d, k) ==
    \E q \in NightCapable \ {p} :
        /\ Norm(q, stats[q].night_shifts) = MinNormNight
        /\ _basic_can_assign(schedule, stats, q, d, k)

\* no refusal of _can_assign_shift other than the night fairness one applies
OnlyNightFairnessLeft(p, d, k) ==
    /\ _basic_can_assign(schedule, stats, p, d, k)
    /\ ~HolidayWorkerBlocks(schedule, stats, p, d, k)
    /\ ~WeekendFairnessBlocks(schedule, stats, p, d, k)
    /\ ~TargetBlocks(schedule, stats, p, d, k)

\* C32: for a night-capable candidate, the normal-tier check refuses a Night
\* or Full24h assignment on night fairness exactly when the candidate's
\* normalized night count exceeds the minimum among night-capable staff and
\* another night-capable person at that minimum passes _basic_can_assign
\* for the same date and kind; with no such person it is not blocked.
C32_NightFairnessBlock ==
    \A p \in NightCapable : \A d \in Dates : \A k \in NightKinds :
        /\ (AboveMinimumNights(p) /\ OtherAtMinimumFree(p, d, k))
                => ~_can_assign_shift(schedule, stats, p, d, k)
        /\ (OnlyNightFairnessLeft(p, d, k)
                /\ ~(AboveMinimumNights(p) /\ OtherAtMinimumFree(p, d, k)))
                => _can_assign_shift(schedule, stats, p, d, k)

\* during a search, one candidate refused on night fairness alone and one
\* above the minimum accepted because nobody at the minimum is free
C32_Witness ==
    /\ pc = "search"
    /\ \E p \in NightCapable : \E d \in Dates : \E k \in NightKinds :
        /\ OnlyNightFairnessLeft(p, d, k)
        /\ AboveMinimumNights(p) /\ OtherAtMinimumFree(p, d, k)
        /\ ~_can_assign_shift(schedule, stats, p, d, k)
    /\ \E p \in NightCapable : \E d \in Dates : \E k \in NightKinds :
        /\ AboveMinimumNights(p) /\ ~OtherAtMinimumFree(p, d, k)
        /\ _can_assign_shift(schedule, stats, p, d, k)

\* no counter of p is negative
CountersNonNegative(st, p) ==
    /\ st[p].total_shifts >= 0 /\ st[p].day_shifts >= 0 /\ st[p].night_shifts >= 0
    /\ st[p].shifts_24h >= 0 /\ st[p].weekend_shifts >= 0
    /\ st[p].holiday_shifts >= 0 /\ st[p].weighted_total >= 0

\* C33: counters always agree with the schedule: for every person
\* assigned_dates is the set of dates of their schedule entries, total,
\* day, night, 24h, weekend and holiday counters are the counts of those
\* entries, weighted_total is #Day + #Night + 2 * #Full24h, and no counter
\* is negative, after every assignment, swap, generation and leave.
C33_CountersAgreeWithSchedule ==
    \A p \in Staff :
        /\ CountersMatch(schedule, stats, p)
        /\ stats[p].assigned_dates = {schedule[i].date : i \in HeldBy(schedule, p)}
        /\ stats[p].holiday_shifts
            = Cardinality({i \in HeldBy(schedule, p) : is_holiday(schedule[i].date)})
        /\ Cardinality(HeldBy(schedule, p)) = Cardinality(stats[p].assigned_dates)
        /\ CountersNonNegative(stats, p)

\* a returned schedule holding a shift moved by _perform_swap, after a leave
\* that handed a shift to a replacement
C33_Witness ==
    /\ pc = "done" /\ last.op = "leave"
    /\ \E i \in DOMAIN schedule : schedule[i].via = "swap"
    /\ \E i \in DOMAIN changes : ~changes[i].warning
    /\ \E p \in Staff : stats[p].total_shifts > 1

\* the number of shifts of kind k on date d in S
KindCount(S, d, k) == Cardinality({i \in DOMAIN S : S[i].date = d /\ S[i].shift = k})

C34_Step ==
    (pc = "optimize" /\ pc' = "optimize") =>
        /\ Len(schedule') = Len(schedule)
        /\ \A d \in Dates : \A k \in ShiftType :
                KindCount(schedule', d, k) = KindCount(schedule, d, k)
        /\ _validate_coverage(schedule) => _validate_coverage(schedule')

\* C34: _optimize_schedule only moves a shift from one person to another on
\* the same date with the same kind: each round leaves the multiset of
\* shift kinds of every date and the number of assignments as they were,
\* so a schedule that passed coverage validation still satisfies it.
C34_OptimizationKeepsCoverage == [][C34_Step]_vars

\* a balancing round has just moved a shift to another person
C34_Witness ==
    /\ pc = "optimize" /\ last.op = "optimize" /\ last.tier = "swapped"
    /\ \E i \in DOMAIN schedule : schedule[i].via = "swap"
    /\ _validate_coverage(schedule)

\* C35: the search never over-staffs and never schedules holidays: during
\* and after an attempt with no fixed-on assignments, no non-holiday date
\* has more Day occupants than day_shifts_per_day or more Night occupants
\* than night_shifts_per_day (a Full24h counting toward both), and no
\* holiday date has any assignment.
C35_NoOverStaffing ==
    (NoFixedOn /\ leaveCalls = 0) =>
        \A d \in Dates :
            IF is_holiday(d)
            THEN \A i \in DOMAIN schedule : schedule[i].date # d
            ELSE /\ DayCount(schedule, d) <= cfg.day_shifts_per_day
                 /\ NightCount(schedule, d) <= cfg.night_shifts_per_day

\* an attempt without fixed-on assignments has ended its search with a date
\* staffed to the full by a Full24h shift and a Day shift, in a month with
\* a holiday
C35_Witness ==
    /\ NoFixedOn /\ leaveCalls = 0 /\ pc = "validate"
    /\ \E d \in Dates : is_holiday(d)
    /\ \E d \in Dates :
        /\ DayCount(schedule, d) = cfg.day_shifts_per_day
        /\ NightCount(schedule, d) = cfg.night_shifts_per_day
        /\ cfg.day_shifts_per_day = 2
        /\ \E i \in DOMAIN schedule : schedule[i].date = d /\ schedule[i].shift = FULL_24H

C36_Step ==
    (pc = "done" /\ leaveCalls' = leaveCalls + 1
        /\ \/ last'.name \notin Staff
           \/ \A i \in DOMAIN schedule :
                ~(schedule[i].name = last'.name /\ schedule[i].date \in last'.leave_dates))
        => /\ changes' = <<>>
           /\ schedule' = schedule
           /\ stats' = stats

\* C36: reschedule_for_leave called with a name that is not in the roster,
\* or with leave dates on which the person holds no shift, returns an empty
\* change list and leaves the schedule and every counter unchanged.
C36_LeaveWithoutShiftsChangesNothing == [][C36_Step]_vars

\* a leave just asked for a roster member who holds shifts, none of them on
\* the leave dates
C36_Witness ==
    /\ pc = "done" /\ last.op = "leave" /\ last.name \in Staff
    /\ changes = <<>>
    /\ \E i \in DOMAIN schedule : schedule[i].name = last.name
    /\ \A i \in DOMAIN schedule :
        ~(schedule[i].name = last.name /\ schedule[i].date \in last.leave_dates)
    /\ \E i \in DOMAIN schedule :
        schedule[i].name = last.name /\ \E d \in last.leave_dates : schedule[i].date > d

C37_Step ==
    /\ (pc = "optimize" /\ pc' = "optimize") =>
        /\ pos.improved /\ pos.iteration < 50
        /\ pos'.iteration = pos.iteration + 1
        /\ schedule' = schedule => ~pos'.improved
    /\ (pc = "optimize" /\ pc' # "optimize") =>
        ~pos.improved \/ pos.iteration = 50

\* C37: _optimize_schedule terminates on every schedule: it performs at
\* most 50 balancing rounds, begins a round only after a round that
\* swapped, stops at the first round in which no balancing step swaps, and
\* every optimization that begins comes to its end.
C37_OptimizationTerminates ==
    /\ [][C37_Step]_vars
    /\ [](pc = "optimize" => pos.iteration <= 50)
    /\ [](pc = "optimize" => <>(pc # "optimize"))

\* the optimization has just stopped at a round without a swap that
\* followed a round with one
C37_Witness ==
    /\ pc = "optimize" /\ last.op = "optimize" /\ last.tier = "none"
    /\ ~pos.improved /\ pos.iteration >= 2
    /\ \E i \in DOMAIN schedule : schedule[i].via = "swap"

\* C38: the absolute-force tier of _find_replacement accepts exactly the
\* persons the force tier accepts, for every person, date, kind and state,
\* so it never yields a replacement when the force tier found none.
C38_AbsoluteForceSameAsForce ==
    /\ \A p \in Staff : \A d \in Dates : \A k \in ShiftType :
            AbsoluteForceFilter(schedule, stats, p, d, k)
                <=> ForceFilter(schedule, stats, p, d, k)
    /\ pc = "done" =>
            \A i \in DOMAIN schedule :
                /\ PassingTier(i, 4) = PassingTier(i, 3)
                /\ ReplacementFor(i).tier # "absolute"

\* after a leave, a schedule with a shift for which the force try and the
\* absolute-force try both find nobody, in which the two tiers accept
\* somebody the emergency check refuses and refuse somebody else
C38_Witness ==
    /\ pc = "done" /\ last.op = "leave"
    /\ \E i \in DOMAIN schedule : PassingTier(i, 3) = {} /\ ReplacementFor(i).person = 0
    /\ \E i \in DOMAIN schedule : PassingTier(i, 4) # {} /\ PassingTier(i, 2) = {}
    /\ \E p \in Staff : \E d \in Dates : \E k \in ShiftType :
        /\ AbsoluteForceFilter(schedule, stats, p, d, k)
        /\ ~_emergency_can_assign(schedule, stats, p, d, k)
    /\ \E p \in Staff : \E d \in Dates : \E k \in ShiftType :
        /\ CapabilityOk(p, k)
        /\ ~AbsoluteForceFilter(schedule, stats, p, d, k)

====
